---- MODULE Spec2Model ----
(***************************************************************************)
(* Formula evaluation engine of the spreadsheet backend                    *)
(* (src/src/backend/app/api/spreadsheet.py, class FormulaEngine).          *)
(*                                                                         *)
(* A Python str is modelled as a sequence of one-character strings, so     *)
(* that splitting, stripping, upper-casing and the A1 letter arithmetic    *)
(* are computed character by character as the code computes them.          *)
(* A Python value is a record tagged by its field k:                       *)
(*   "num"  an int or a float: the rational n/d, fl = TRUE for a float     *)
(*   "str"  a str, "bool" a bool, "list" a list, "err" the dict            *)
(*          {"error": message} built by evaluate                           *)
(*   "raise" is not a value: it is the outcome "an exception propagates".  *)
(***************************************************************************)
EXTENDS Integers, Sequences, FiniteSets, TLC

VARIABLES
  data,      \* FormulaEngine.data: the cell data mapping installed by update_data
  op,        \* the operation that ran last
  request,   \* the request being served: its formula text and its cell data
  result,    \* what evaluate returned for the request's formula
  col,       \* the column index last given to _col_to_letter
  letters,   \* the letter run last converted
  back,      \* the column index _parse_cell_ref gives for letters
  log,       \* the calls made on one engine, in order, with what they returned
  pc,        \* for each request in flight, where its handler is
  requests,  \* the requests in flight
  responses, \* the FormulaResponse returned for each request
  stack      \* the frames of the calls in progress of one evaluation, outermost first

vars == <<data, op, request, result, col, letters, back, log, pc, requests, responses, stack>>

(***************************************************************************)
(* Characters                                                              *)
(***************************************************************************)
UpperLetters == <<"A","B","C","D","E","F","G","H","I","J","K","L","M",
                  "N","O","P","Q","R","S","T","U","V","W","X","Y","Z">>

LowerLetters == <<"a","b","c","d","e","f","g","h","i","j","k","l","m",
                  "n","o","p","q","r","s","t","u","v","w","x","y","z">>

Digits == <<"0","1","2","3","4","5","6","7","8","9">>

Range(s) == {s[i] : i \in 1..Len(s)}

IndexOf(c, s) == CHOOSE i \in 1..Len(s) : s[i] = c

isupper(c) == c \in Range(UpperLetters)

islower(c) == c \in Range(LowerLetters)

isalpha(c) == isupper(c) \/ islower(c)

isdigit(c) == c \in Range(Digits)

\* str.isalnum(): non-empty and every character a letter or a digit
isalnum(s) == Len(s) > 0 /\ \A i \in 1..Len(s) : isalpha(s[i]) \/ isdigit(s[i])

\* ord(c) for the characters of the model's alphabet (ASCII)
ord(c) ==
  CASE isupper(c) -> 64 + IndexOf(c, UpperLetters)
    [] islower(c) -> 96 + IndexOf(c, LowerLetters)
    [] isdigit(c) -> 47 + IndexOf(c, Digits)
    [] c = " " -> 32
    [] c = "$" -> 36
    [] c = "'" -> 39
    [] c = "(" -> 40
    [] c = ")" -> 41
    [] c = "," -> 44
    [] c = "-" -> 45
    [] c = "." -> 46
    [] c = ":" -> 58
    [] c = "=" -> 61
    [] c = ">" -> 62
    [] c = "[" -> 91
    [] c = "]" -> 93
    [] c = "{" -> 123
    [] c = "}" -> 125

\* chr(n) for n the code of an upper-case letter
chr(n) == UpperLetters[n - 64]

\* str.upper() and str.lower()
upper(s) == [i \in 1..Len(s) |->
               IF islower(s[i]) THEN UpperLetters[IndexOf(s[i], LowerLetters)] ELSE s[i]]

lower(s) == [i \in 1..Len(s) |->
               IF isupper(s[i]) THEN LowerLetters[IndexOf(s[i], UpperLetters)] ELSE s[i]]

\* s.replace(c, ''): every occurrence of the character c removed
replace(s, c) == SelectSeq(s, LAMBDA x : x # c)

\* s.startswith(c) for a one-character prefix
startswith(s, c) == Len(s) > 0 /\ s[1] = c

\* c in s
contains(s, c) == \E i \in 1..Len(s) : s[i] = c

\* str.strip(): leading and trailing blanks removed
strip(s) ==
  LET nb == {i \in 1..Len(s) : s[i] # " "}
      lo == CHOOSE i \in nb : \A j \in nb : i <= j
      hi == CHOOSE i \in nb : \A j \in nb : i >= j
  IN  IF nb = {} THEN <<>> ELSE SubSeq(s, lo, hi)

\* int(s) for a run of decimal digits
RECURSIVE int_of_digits(_)
int_of_digits(s) ==
  IF s = <<>> THEN 0
  ELSE 10 * int_of_digits(SubSeq(s, 1, Len(s) - 1)) + (IndexOf(s[Len(s)], Digits) - 1)

\* str(n) for an int n
RECURSIVE str_of_nat(_)
str_of_nat(n) ==
  IF n < 10 THEN <<Digits[n + 1]>>
  ELSE str_of_nat(n \div 10) \o <<Digits[(n % 10) + 1]>>

str_of_int(n) == IF n < 0 THEN <<"-">> \o str_of_nat(-n) ELSE str_of_nat(n)

(***************************************************************************)
(* Outcomes                                                                *)
(***************************************************************************)
\* an exception of class exc propagating with message text msg
Raise(exc, msg) == [k |-> "raise", exc |-> exc, msg |-> msg, spelled |-> TRUE]

IsRaise(v) == v.k = "raise"

(***************************************************************************)
(* A1 notation                                                             *)
(***************************************************************************)
\* length of the longest run of upper-case letters ([A-Z]+), and of digits
\* (\d+), that starts at position p of s
upper_run(s, p) ==
  LET ok == {n \in 0..(Len(s) - p + 1) : \A i \in p..(p + n - 1) : isupper(s[i])}
  IN  CHOOSE n \in ok : \A m \in ok : m <= n

digit_run(s, p) ==
  LET ok == {n \in 0..(Len(s) - p + 1) : \A i \in p..(p + n - 1) : isdigit(s[i])}
  IN  CHOOSE n \in ok : \A m \in ok : m <= n

InvalidCellReference == <<"I","n","v","a","l","i","d"," ","c","e","l","l"," ",
                          "r","e","f","e","r","e","n","c","e",":"," ">>

\* the base-26 accumulation of _parse_cell_ref over the letter run
RECURSIVE letter_to_col(_, _)
letter_to_col(run, acc) ==
  IF run = <<>> THEN acc
  ELSE letter_to_col(Tail(run), acc * 26 + (ord(run[1]) - 65))

\* re.match(r'\$?([A-Z]+)\$?(\d+)', ref.upper()): a prefix match, the text
\* after the digits is not looked at
_parse_cell_ref(ref) ==
  LET u  == upper(ref)
      p1 == IF startswith(u, "$") THEN 2 ELSE 1
      nl == upper_run(u, p1)
      p2 == p1 + nl
      p3 == IF p2 <= Len(u) /\ u[p2] = "$" THEN p2 + 1 ELSE p2
      nd == digit_run(u, p3)
  IN  IF nl = 0 \/ nd = 0
      THEN Raise("ValueError", InvalidCellReference \o ref)
      ELSE [k |-> "ref",
            col |-> letter_to_col(SubSeq(u, p1, p2 - 1), 0),
            row |-> int_of_digits(SubSeq(u, p3, p3 + nd - 1)) - 1]

RECURSIVE col_to_letter_loop(_, _)
col_to_letter_loop(c, res) ==
  IF c >= 0
  THEN col_to_letter_loop((c \div 26) - 1, <<chr(65 + (c % 26))>> \o res)
  ELSE res

_col_to_letter(c) ==
  LET res == col_to_letter_loop(c, <<>>)
  IN  IF res = <<>> THEN <<"A">> ELSE res

(***************************************************************************)
(* Values                                                                  *)
(***************************************************************************)
RECURSIVE gcd(_, _)
gcd(a, b) == IF b = 0 THEN a ELSE gcd(b, a % b)

abs_int(n) == IF n < 0 THEN -n ELSE n

\* the rational n/d in lowest terms, d > 0
Rat(n, d, fl) ==
  LET g == gcd(abs_int(n), abs_int(d))
      sg == IF d < 0 THEN -1 ELSE 1
  IN  [k |-> "num", n |-> sg * (n \div g), d |-> sg * (d \div g), fl |-> fl]

IntV(n) == [k |-> "num", n |-> n, d |-> 1, fl |-> FALSE]

FloatV(n) == [k |-> "num", n |-> n, d |-> 1, fl |-> TRUE]

StrV(s) == [k |-> "str", s |-> s]

BoolV(b) == [k |-> "bool", b |-> b]

ListV(items) == [k |-> "list", items |-> items]

\* the dict {"error": str(e)}; spelled = FALSE when the text of the message
\* is produced by the interpreter and only its identity (msg) is kept
Err(e) == [k |-> "err", msg |-> e.msg, spelled |-> e.spelled]

\* an outcome the model does not compute (an irrational power, the text of
\* a float with no short decimal form, the text of an interpreter message).
\* Whatever depends on it is not computed either: it passes through every
\* operator up to the result of evaluate.
Unmodelled == [k |-> "unmodelled"]

\* an exception raised by the interpreter or its library; what names the message
RaiseInterp(exc, what) == [k |-> "raise", exc |-> exc, msg |-> <<what>>, spelled |-> FALSE]

\* isinstance(v, (int, float)); a bool is an int
isnumber(v) == v.k \in {"num", "bool"}

\* the numeric value of an int, float or bool
as_num(v) == IF v.k = "bool" THEN IntV(IF v.b THEN 1 ELSE 0) ELSE v

\* a truth value in which every text is false
truthy_of_numbers(v) ==
  CASE v.k = "num" -> v.n # 0
    [] v.k = "bool" -> v.b
    [] v.k = "str" -> FALSE
    [] v.k = "list" -> v.items # <<>>
    [] v.k = "err" -> TRUE

\* bool(v)
truthy(v) ==
  CASE v.k = "num" -> v.n # 0
    [] v.k = "bool" -> v.b
    [] v.k = "str" -> v.s # <<>>
    [] v.k = "list" -> v.items # <<>>
    [] v.k = "err" -> TRUE

add(x, y) == Rat(x.n * y.d + y.n * x.d, x.d * y.d, x.fl \/ y.fl)

num_lt(x, y) == x.n * y.d < y.n * x.d

\* s < t for two str, by code point then by length
RECURSIVE str_lt(_, _)
str_lt(s, t) ==
  IF t = <<>> THEN FALSE
  ELSE IF s = <<>> THEN TRUE
  ELSE IF s[1] # t[1] THEN ord(s[1]) < ord(t[1])
  ELSE str_lt(Tail(s), Tail(t))

\* x < y: "lt", "ge", or "TypeError" when the operand types are not ordered
less(x, y) ==
  IF isnumber(x) /\ isnumber(y)
  THEN IF num_lt(as_num(x), as_num(y)) THEN "lt" ELSE "ge"
  ELSE IF x.k = "str" /\ y.k = "str"
  THEN IF str_lt(x.s, y.s) THEN "lt" ELSE "ge"
  ELSE "TypeError"

\* sum(vals): the left fold of + from the int 0
RECURSIVE sum_from(_, _)
sum_from(acc, vals) ==
  IF vals = <<>> THEN acc
  ELSE IF ~isnumber(vals[1]) THEN RaiseInterp("TypeError", "unsupported operand type(s) for +")
  ELSE sum_from(add(acc, as_num(vals[1])), Tail(vals))

sum(vals) == sum_from(IntV(0), vals)

\* max(vals) and min(vals) for a non-empty vals: the first extremal item
RECURSIVE max_from(_, _)
max_from(cur, vals) ==
  IF vals = <<>> THEN cur
  ELSE LET c == less(cur, vals[1])
       IN  IF c = "TypeError" THEN RaiseInterp("TypeError", "'>' not supported")
           ELSE max_from(IF c = "lt" THEN vals[1] ELSE cur, Tail(vals))

RECURSIVE min_from(_, _)
min_from(cur, vals) ==
  IF vals = <<>> THEN cur
  ELSE LET c == less(vals[1], cur)
       IN  IF c = "TypeError" THEN RaiseInterp("TypeError", "'<' not supported")
           ELSE min_from(IF c = "lt" THEN vals[1] ELSE cur, Tail(vals))

RECURSIVE flatten_items(_)
flatten_items(items) ==
  IF items = <<>> THEN <<>>
  ELSE (IF items[1].k = "list" THEN flatten_items(items[1].items) ELSE <<items[1]>>)
       \o flatten_items(Tail(items))

\* _flatten without the recursive call: one level of nesting is kept
_flatten_one_level(arr) == IF arr.k = "list" THEN arr.items ELSE <<arr>>

_flatten(arr) == flatten_items(IF arr.k = "list" THEN arr.items ELSE <<arr>>)

(***************************************************************************)
(* Conversions str(), repr(), int(), round() and ** of the interpreter     *)
(***************************************************************************)
IsPowerOfTwo(d) == d \in {1, 2, 4, 8, 16, 32, 64}

\* the digits of the fraction r/d (0 <= r < d, d a power of two), exact
RECURSIVE frac_digits(_, _)
frac_digits(r, d) ==
  IF r = 0 THEN <<>>
  ELSE <<Digits[((10 * r) \div d) + 1]>> \o frac_digits((10 * r) % d, d)

\* repr(x) of a float x: the shortest decimal text, which is the exact
\* decimal expansion when x is a dyadic rational of few digits
str_of_float(x) ==
  IF x.d = 1 THEN StrV(str_of_int(x.n) \o <<".", "0">>)
  ELSE IF IsPowerOfTwo(x.d)
  THEN LET a == abs_int(x.n)
       IN  StrV((IF x.n < 0 THEN <<"-">> ELSE <<>>) \o str_of_nat(a \div x.d)
                \o <<".">> \o frac_digits(a % x.d, x.d))
  ELSE Unmodelled

\* repr(s) of a str s without quote or backslash characters
repr_of_str(s) ==
  IF contains(s, "'") THEN Unmodelled ELSE StrV(<<"'">> \o s \o <<"'">>)

ErrorKeyText == <<"{", "'", "e", "r", "r", "o", "r", "'", ":", " ">>

RECURSIVE repr_of(_)
RECURSIVE repr_items(_, _)
\* repr(v); str(v) differs from it for a str only
repr_of(v) ==
  CASE v.k = "str" -> repr_of_str(v.s)
    [] v.k = "num" -> IF v.fl THEN str_of_float(v) ELSE StrV(str_of_int(v.n))
    [] v.k = "bool" -> StrV(IF v.b THEN <<"T","r","u","e">> ELSE <<"F","a","l","s","e">>)
    [] v.k = "list" -> repr_items(v.items, <<"[">>)
    [] v.k = "err" ->
         IF ~v.spelled THEN Unmodelled
         ELSE LET m == repr_of_str(v.msg)
              IN  IF m.k = "unmodelled" THEN m ELSE StrV(ErrorKeyText \o m.s \o <<"}">>)
    [] v.k = "unmodelled" -> Unmodelled

\* '[' + ', '.join(repr(x) for x in items) + ']'
repr_items(items, acc) ==
  IF items = <<>> THEN StrV(acc \o <<"]">>)
  ELSE LET r == repr_of(items[1])
       IN  IF r.k = "unmodelled" THEN r
           ELSE repr_items(Tail(items),
                           acc \o r.s \o (IF Len(items) > 1 THEN <<",", " ">> ELSE <<>>))

str_of(v) == IF v.k = "str" THEN v ELSE repr_of(v)

\* int(v)
int_of(v) ==
  CASE v.k = "num" ->
         IntV(IF v.n >= 0 THEN v.n \div v.d ELSE -((-v.n) \div v.d))
    [] v.k = "bool" -> IntV(IF v.b THEN 1 ELSE 0)
    [] v.k = "str" ->
         LET t == strip(v.s)
             neg == startswith(t, "-")
             ds == IF neg THEN Tail(t) ELSE t
         IN  IF ds # <<>> /\ \A i \in 1..Len(ds) : isdigit(ds[i])
             THEN IntV(IF neg THEN -int_of_digits(ds) ELSE int_of_digits(ds))
             ELSE RaiseInterp("ValueError", "invalid literal for int()")
    [] v.k \in {"list", "err"} ->
         RaiseInterp("TypeError", "int() argument must be a string or a number")
    [] v.k = "unmodelled" -> Unmodelled

RECURSIVE ipow(_, _)
ipow(b, e) == IF e = 0 THEN 1 ELSE b * ipow(b, e - 1)

\* a/b (b > 0) rounded to the nearest integer, ties to the even one
round_half_even(a, b) ==
  LET f == a \div b
      r == 2 * (a % b)
  IN  IF r < b THEN f
      ELSE IF r > b THEN f + 1
      ELSE IF f % 2 = 0 THEN f ELSE f + 1

IsTie(a, b) == 2 * (a % b) = b

MaxDigits == 4

\* round(x, nd)
round(x, nd) ==
  IF ~isnumber(x) THEN RaiseInterp("TypeError", "type doesn't define __round__ method")
  ELSE LET v == as_num(x)
       IN  IF v.d = 1 /\ nd >= 0 THEN v
           ELSE IF abs_int(nd) > MaxDigits THEN Unmodelled
           ELSE LET sc == ipow(10, abs_int(nd))
                    a  == IF nd >= 0 THEN v.n * sc ELSE v.n
                    b  == IF nd >= 0 THEN v.d ELSE v.d * sc
                IN  IF IsTie(a, b) /\ ~IsPowerOfTwo(v.d) THEN Unmodelled
                    ELSE IF nd >= 0 THEN Rat(round_half_even(a, b), sc, v.fl)
                    ELSE Rat(round_half_even(a, b) * sc, 1, v.fl)

MaxPowOperand == 100

\* x ** y
power(x, y) ==
  IF ~isnumber(x) \/ ~isnumber(y)
  THEN RaiseInterp("TypeError", "unsupported operand type(s) for **")
  ELSE LET b == as_num(x)
           e == as_num(y)
       IN  IF e.d # 1 \/ abs_int(e.n) > MaxDigits
              \/ abs_int(b.n) > MaxPowOperand \/ b.d > MaxPowOperand
           THEN Unmodelled
           ELSE IF e.n >= 0
           THEN Rat(ipow(b.n, e.n), ipow(b.d, e.n), b.fl \/ e.fl)
           ELSE IF b.n = 0
           THEN RaiseInterp("ZeroDivisionError", "0.0 cannot be raised to a negative power")
           ELSE Rat(ipow(b.d, -e.n), ipow(b.n, -e.n), TRUE)

\* s[:n]
slice_to(s, n) ==
  IF n >= 0 THEN SubSeq(s, 1, IF n < Len(s) THEN n ELSE Len(s))
  ELSE SubSeq(s, 1, Len(s) + n)

\* s[m:]
slice_from(s, m) ==
  IF m >= 0 THEN SubSeq(s, m + 1, Len(s))
  ELSE SubSeq(s, (IF Len(s) + m > 0 THEN Len(s) + m ELSE 0) + 1, Len(s))

(***************************************************************************)
(* Function library: the table of _call_function                           *)
(***************************************************************************)
fn_SUM == <<"S","U","M">>

fn_AVERAGE == <<"A","V","E","R","A","G","E">>

fn_COUNT == <<"C","O","U","N","T">>

fn_MAX == <<"M","A","X">>

fn_MIN == <<"M","I","N">>

fn_IF == <<"I","F">>

fn_AND == <<"A","N","D">>

fn_OR == <<"O","R">>

fn_ABS == <<"A","B","S">>

fn_ROUND == <<"R","O","U","N","D">>

fn_POWER == <<"P","O","W","E","R">>

fn_CONCAT == <<"C","O","N","C","A","T">>

fn_LEFT == <<"L","E","F","T">>

fn_RIGHT == <<"R","I","G","H","T">>

fn_LEN == <<"L","E","N">>

fn_UPPER == <<"U","P","P","E","R">>

fn_LOWER == <<"L","O","W","E","R">>

functions == {fn_SUM, fn_AVERAGE, fn_COUNT, fn_MAX, fn_MIN, fn_IF, fn_AND, fn_OR, fn_ABS, fn_ROUND, fn_POWER, fn_CONCAT, fn_LEFT, fn_RIGHT, fn_LEN, fn_UPPER, fn_LOWER}

UnknownFunction == <<"U","n","k","n","o","w","n"," ","f","u","n","c","t","i","o","n",":"," ">>

IndexError == RaiseInterp("IndexError", "list index out of range")

RECURSIVE HasUnmodelled(_)
HasUnmodelled(items) ==
  \E i \in 1..Len(items) :
     \/ items[i].k = "unmodelled"
     \/ items[i].k = "list" /\ HasUnmodelled(items[i].items)

\* ''.join(str(x) for x in a)
RECURSIVE join_str(_, _)
join_str(a, acc) ==
  IF a = <<>> THEN StrV(acc)
  ELSE LET t == str_of(a[1])
       IN  IF t.k = "unmodelled" THEN t ELSE join_str(Tail(a), acc \o t.s)

\* int(a[1]) if len(a) > 1 else dflt
second_int(a, dflt) == IF Len(a) > 1 THEN int_of(a[2]) ELSE IntV(dflt)

\* str(a[0]) with the int n of the second argument when there is one
text_and_int(a, dflt) ==
  IF Len(a) = 0 THEN IndexError
  ELSE LET t == str_of(a[1])
           n == second_int(a, dflt)
       IN  IF t.k = "unmodelled" THEN t
           ELSE IF n.k # "num" THEN n
           ELSE [k |-> "text_and_int", s |-> t.s, n |-> n.n]

\* str(a[0])
first_text(a) == IF Len(a) = 0 THEN IndexError ELSE str_of(a[1])

\* the lambdas of the functions table, one definition each
lambda_SUM(a) == sum(_flatten(ListV(a)))

\* AVERAGE dividing without the test for an empty list
lambda_AVERAGE_unguarded(a) ==
  LET flat == _flatten(ListV(a))
  IN  IF flat = <<>> THEN RaiseInterp("ZeroDivisionError", "division by zero")
      ELSE LET t == sum(flat)
           IN  IF IsRaise(t) THEN t ELSE Rat(t.n, t.d * Len(flat), TRUE)

lambda_AVERAGE(a) ==
  LET flat == _flatten(ListV(a))
  IN  IF flat = <<>> THEN IntV(0)
      ELSE LET t == sum(flat)
           IN  IF IsRaise(t) THEN t ELSE Rat(t.n, t.d * Len(flat), TRUE)

lambda_COUNT(a) ==
  LET flat == _flatten(ListV(a))
  IN  IntV(Cardinality({i \in 1..Len(flat) : isnumber(flat[i])}))

lambda_MAX(a) ==
  LET flat == _flatten(ListV(a))
  IN  IF flat = <<>> THEN IntV(0) ELSE max_from(flat[1], Tail(flat))

lambda_MIN(a) ==
  LET flat == _flatten(ListV(a))
  IN  IF flat = <<>> THEN IntV(0) ELSE min_from(flat[1], Tail(flat))

\* IF whose third argument is read without the test of len(a)
lambda_IF_else_required(a) ==
  IF Len(a) = 0 THEN IndexError
  ELSE IF truthy(a[1]) THEN (IF Len(a) > 1 THEN a[2] ELSE IndexError)
  ELSE IF Len(a) > 2 THEN a[3]
  ELSE IndexError

lambda_IF(a) ==
  IF Len(a) = 0 THEN IndexError
  ELSE IF truthy(a[1]) THEN (IF Len(a) > 1 THEN a[2] ELSE IndexError)
  ELSE IF Len(a) > 2 THEN a[3]
  ELSE BoolV(FALSE)

lambda_AND(a) == BoolV(\A i \in 1..Len(a) : truthy(a[i]))

lambda_OR(a) == BoolV(\E i \in 1..Len(a) : truthy(a[i]))

lambda_ABS(a) ==
  IF Len(a) = 0 THEN IndexError
  ELSE IF ~isnumber(a[1])
  THEN RaiseInterp("TypeError", "bad operand type for abs()")
  ELSE LET v == as_num(a[1]) IN Rat(abs_int(v.n), v.d, v.fl)

lambda_ROUND(a) ==
  IF Len(a) = 0 THEN IndexError
  ELSE LET n == second_int(a, 0)
       IN  IF n.k # "num" THEN n ELSE round(a[1], n.n)

lambda_POWER(a) == IF Len(a) < 2 THEN IndexError ELSE power(a[1], a[2])

lambda_CONCAT(a) == join_str(a, <<>>)

lambda_LEFT(a) ==
  LET r == text_and_int(a, 1)
  IN  IF r.k # "text_and_int" THEN r ELSE StrV(slice_to(r.s, r.n))

\* -int(a[1]) if len(a) > 1 else 1 is the start of the slice
lambda_RIGHT(a) ==
  LET r == text_and_int(a, 1)
  IN  IF r.k # "text_and_int" THEN r
      ELSE StrV(slice_from(r.s, IF Len(a) > 1 THEN -r.n ELSE r.n))

lambda_LEN(a) ==
  LET t == first_text(a) IN IF t.k # "str" THEN t ELSE IntV(Len(t.s))

lambda_UPPER(a) ==
  LET t == first_text(a) IN IF t.k # "str" THEN t ELSE StrV(upper(t.s))

lambda_LOWER(a) ==
  LET t == first_text(a) IN IF t.k # "str" THEN t ELSE StrV(lower(t.s))

\* functions[name](args)
apply_function(name, a) ==
  CASE name = fn_SUM -> lambda_SUM(a)
    [] name = fn_AVERAGE -> lambda_AVERAGE(a)
    [] name = fn_COUNT -> lambda_COUNT(a)
    [] name = fn_MAX -> lambda_MAX(a)
    [] name = fn_MIN -> lambda_MIN(a)
    [] name = fn_IF -> lambda_IF(a)
    [] name = fn_AND -> lambda_AND(a)
    [] name = fn_OR -> lambda_OR(a)
    [] name = fn_ABS -> lambda_ABS(a)
    [] name = fn_ROUND -> lambda_ROUND(a)
    [] name = fn_POWER -> lambda_POWER(a)
    [] name = fn_CONCAT -> lambda_CONCAT(a)
    [] name = fn_LEFT -> lambda_LEFT(a)
    [] name = fn_RIGHT -> lambda_RIGHT(a)
    [] name = fn_LEN -> lambda_LEN(a)
    [] name = fn_UPPER -> lambda_UPPER(a)
    [] name = fn_LOWER -> lambda_LOWER(a)

_call_function(name, a) ==
  IF HasUnmodelled(a) THEN Unmodelled
  ELSE IF name \notin functions THEN Raise("ValueError", UnknownFunction \o name)
  ELSE apply_function(name, a)

(***************************************************************************)
(* Expression evaluator                                                    *)
(***************************************************************************)
\* d[key] in place of d.get(key, 0)
get_item(d, key) ==
  IF key \in DOMAIN d THEN d[key] ELSE Raise("KeyError", <<"'">> \o key \o <<"'">>)

\* d.get(key, 0) on the cell data mapping d
get(d, key) == IF key \in DOMAIN d THEN d[key] ELSE IntV(0)

\* position of the first and of the last occurrence of the character c in s
find(s, c) == CHOOSE i \in 1..Len(s) : s[i] = c /\ \A j \in 1..(i - 1) : s[j] # c

rfind(s, c) == CHOOSE i \in 1..Len(s) : s[i] = c /\ \A j \in (i + 1)..Len(s) : s[j] # c

count(s, c) == Cardinality({i \in 1..Len(s) : s[i] = c})

\* the rows of the loops of _get_range_values with the bounds put in order
range_rows_reordering(d, start_ref, end_ref) ==
  LET row0 == IF start_ref.row <= end_ref.row THEN start_ref.row ELSE end_ref.row
      row1 == IF start_ref.row <= end_ref.row THEN end_ref.row ELSE start_ref.row
      col0 == IF start_ref.col <= end_ref.col THEN start_ref.col ELSE end_ref.col
      col1 == IF start_ref.col <= end_ref.col THEN end_ref.col ELSE start_ref.col
  IN  ListV([r \in 1..(row1 - row0 + 1) |->
        ListV([c \in 1..(col1 - col0 + 1) |->
          get(d, _col_to_letter(col0 + c - 1) \o str_of_int(row0 + r - 1 + 1))])])

\* _get_range_values putting the bounds in order first
_get_range_values_reordering(d, range_ref) ==
  IF count(range_ref, ":") # 1
  THEN RaiseInterp("ValueError", "too many values to unpack (expected 2)")
  ELSE CHOOSE values \in
         {IF IsRaise(start_ref) THEN start_ref
          ELSE IF IsRaise(end_ref) THEN end_ref
          ELSE range_rows_reordering(d, start_ref, end_ref) :
            start_ref \in {_parse_cell_ref(SubSeq(range_ref, 1, find(range_ref, ":") - 1))},
            end_ref \in {_parse_cell_ref(SubSeq(range_ref, find(range_ref, ":") + 1,
                                                Len(range_ref)))}} : TRUE

\* the two for loops of _get_range_values over the rows and the columns
range_rows(d, start_ref, end_ref) ==
  ListV([r \in 1..(end_ref.row - start_ref.row + 1) |->
    ListV([c \in 1..(end_ref.col - start_ref.col + 1) |->
      get(d, _col_to_letter(start_ref.col + c - 1)
             \o str_of_int(start_ref.row + r - 1 + 1))])])

\* start_ref and end_ref are bound once to what _parse_cell_ref returns
_get_range_values(d, range_ref) ==
  IF count(range_ref, ":") # 1
  THEN RaiseInterp("ValueError", "too many values to unpack (expected 2)")
  ELSE CHOOSE values \in
         {IF IsRaise(start_ref) THEN start_ref
          ELSE IF IsRaise(end_ref) THEN end_ref
          ELSE range_rows(d, start_ref, end_ref) :
            start_ref \in {_parse_cell_ref(SubSeq(range_ref, 1, find(range_ref, ":") - 1))},
            end_ref \in {_parse_cell_ref(SubSeq(range_ref, find(range_ref, ":") + 1,
                                                Len(range_ref)))}} : TRUE

\* the depth of nested evaluate calls at which the interpreter raises RecursionError
RecursionLimit == 6

\* float(expr) succeeds; expr is stripped and holds letters, digits and the
\* characters = ( ) , : $ > and blank only, so that only a run of digits parses
float_parses(expr) == expr # <<>> /\ \A i \in 1..Len(expr) : isdigit(expr[i])

RECURSIVE evaluate_at(_, _, _)
RECURSIVE _parse_and_eval(_, _, _)
RECURSIVE parse_args_loop(_, _, _, _, _, _)
RECURSIVE _get_cell_value(_, _, _)

\* _get_cell_value returning the stored content as it is
_get_cell_value_stored(d, ref, level) ==
  IF contains(ref, ":") THEN _get_range_values(d, ref)
  ELSE get(d, upper(replace(ref, "$")))

_get_cell_value(d, ref, level) ==
  IF contains(ref, ":") THEN _get_range_values(d, ref)
  ELSE LET clean_ref == upper(replace(ref, "$"))
           val == get(d, clean_ref)
       IN  IF val.k = "str" /\ startswith(val.s, "=")
           THEN IF level >= RecursionLimit
                THEN RaiseInterp("RecursionError", "maximum recursion depth exceeded")
                ELSE evaluate_at(d, val.s, level + 1)
           ELSE val

\* the loop body splitting at every comma, whatever the depth
loop_body_every_comma(d, st, char, level) ==
  IF char = "("
  THEN [st EXCEPT !.depth = @ + 1, !.current = Append(@, char)]
  ELSE IF char = ")"
  THEN [st EXCEPT !.depth = @ - 1, !.current = Append(@, char)]
  ELSE IF char = ","
  THEN LET v == _parse_and_eval(d, strip(st.current), level)
       IN  IF IsRaise(v) \/ v.k = "unmodelled" THEN v
           ELSE [st EXCEPT !.args = Append(@, v), !.current = <<>>]
  ELSE [st EXCEPT !.current = Append(@, char)]

\* the body of the for loop of _parse_args for one character; st holds the
\* loop's current, depth and args
loop_body(d, st, char, level) ==
  IF char = "("
  THEN [st EXCEPT !.depth = @ + 1, !.current = Append(@, char)]
  ELSE IF char = ")"
  THEN [st EXCEPT !.depth = @ - 1, !.current = Append(@, char)]
  ELSE IF char = "," /\ st.depth = 0
  THEN LET v == _parse_and_eval(d, strip(st.current), level)
       IN  IF IsRaise(v) \/ v.k = "unmodelled" THEN v
           ELSE [st EXCEPT !.args = Append(@, v), !.current = <<>>]
  ELSE [st EXCEPT !.current = Append(@, char)]

\* the for loop of _parse_args over the characters lo..hi, run as its first
\* half and then its second half. An exception raised by one argument ends
\* the loop.
parse_args_loop(d, args_str, lo, hi, st, level) ==
  IF lo > hi THEN st
  ELSE IF lo = hi THEN loop_body(d, st, args_str[lo], level)
  ELSE LET mid == (lo + hi) \div 2
           half == parse_args_loop(d, args_str, lo, mid, st, level)
       IN  IF half.k # "loop" THEN half
           ELSE parse_args_loop(d, args_str, mid + 1, hi, half, level)

\* _parse_args keeping the exception of its last argument as a value for
\* the function to look at
_parse_args_deferring(d, args_str, level) ==
  LET st == parse_args_loop(d, args_str, 1, Len(args_str),
              [k |-> "loop", current |-> <<>>, depth |-> 0, args |-> <<>>], level)
  IN  IF st.k # "loop" THEN st
      ELSE IF strip(st.current) # <<>>
      THEN LET v == _parse_and_eval(d, strip(st.current), level)
           IN  IF v.k = "unmodelled" THEN v
               ELSE [k |-> "args", items |-> Append(st.args, IF IsRaise(v) THEN Err(v) ELSE v)]
      ELSE [k |-> "args", items |-> st.args]

_parse_args(d, args_str, level) ==
  LET st == parse_args_loop(d, args_str, 1, Len(args_str),
              [k |-> "loop", current |-> <<>>, depth |-> 0, args |-> <<>>], level)
  IN  IF st.k # "loop" THEN st
      ELSE IF strip(st.current) # <<>>
      THEN LET v == _parse_and_eval(d, strip(st.current), level)
           IN  IF IsRaise(v) \/ v.k = "unmodelled" THEN v
               ELSE [k |-> "args", items |-> Append(st.args, v)]
      ELSE [k |-> "args", items |-> st.args]

\* _parse_and_eval refusing a call that does not end with its ")"
_parse_and_eval_to_the_end(d, expr0, level) ==
  LET expr == strip(expr0)
  IN  IF contains(expr, "(")
      THEN LET p == find(expr, "(")
               func_name == upper(SubSeq(expr, 1, p - 1))
               rest == SubSeq(expr, p + 1, Len(expr))
               args_str == IF contains(rest, ")")
                           THEN SubSeq(rest, 1, rfind(rest, ")") - 1)
                           ELSE rest
               args == _parse_args(d, args_str, level)
           IN  IF contains(rest, ")") /\ rfind(rest, ")") # Len(rest)
               THEN Raise("ValueError", <<"U","n","e","x","p","e","c","t","e","d"," ","t","e","x","t">>)
               ELSE IF args.k # "args" THEN args
               ELSE _call_function(func_name, args.items)
      ELSE IF isalnum(replace(replace(expr, ":"), "$"))
              /\ \E i \in 1..Len(expr) : isalpha(expr[i])
      THEN _get_cell_value(d, expr, level)
      ELSE IF float_parses(expr) THEN FloatV(int_of_digits(expr))
      ELSE StrV(expr)

\* _parse_and_eval looking the function name up as it is written
_parse_and_eval_as_written(d, expr0, level) ==
  LET expr == strip(expr0)
  IN  IF contains(expr, "(")
      THEN LET p == find(expr, "(")
               func_name == SubSeq(expr, 1, p - 1)
               rest == SubSeq(expr, p + 1, Len(expr))
               args_str == IF contains(rest, ")")
                           THEN SubSeq(rest, 1, rfind(rest, ")") - 1)
                           ELSE rest
               args == _parse_args(d, args_str, level)
           IN  IF args.k # "args" THEN args ELSE _call_function(func_name, args.items)
      ELSE IF isalnum(replace(replace(expr, ":"), "$"))
              /\ \E i \in 1..Len(expr) : isalpha(expr[i])
      THEN _get_cell_value(d, expr, level)
      ELSE IF float_parses(expr) THEN FloatV(int_of_digits(expr))
      ELSE StrV(expr)

_parse_and_eval(d, expr0, level) ==
  LET expr == strip(expr0)
  IN  IF contains(expr, "(")
      THEN LET p == find(expr, "(")
               func_name == upper(SubSeq(expr, 1, p - 1))
               rest == SubSeq(expr, p + 1, Len(expr))
               args_str == IF contains(rest, ")")
                           THEN SubSeq(rest, 1, rfind(rest, ")") - 1)
                           ELSE rest
               args == _parse_args(d, args_str, level)
           IN  IF args.k # "args" THEN args ELSE _call_function(func_name, args.items)
      ELSE IF isalnum(replace(replace(expr, ":"), "$"))
              /\ \E i \in 1..Len(expr) : isalpha(expr[i])
      THEN _get_cell_value(d, expr, level)
      ELSE IF float_parses(expr) THEN FloatV(int_of_digits(expr))
      ELSE StrV(expr)

\* evaluate without the try/except around _parse_and_eval
evaluate_at_uncaught(d, f, level) ==
  IF ~startswith(f, "=") THEN StrV(f) ELSE _parse_and_eval(d, Tail(f), level)

\* evaluate without the test for the leading "="
evaluate_at_unguarded(d, f, level) ==
  LET r == _parse_and_eval(d, IF startswith(f, "=") THEN Tail(f) ELSE f, level)
  IN  IF IsRaise(r) THEN Err(r) ELSE r

\* evaluate as run at nesting depth level of cross-cell calls
evaluate_at(d, f, level) ==
  IF ~startswith(f, "=") THEN StrV(f)
  ELSE LET r == _parse_and_eval(d, Tail(f), level)
       IN  IF IsRaise(r) THEN Err(r) ELSE r

evaluate(d, f) == evaluate_at(d, f, 0)

(***************************************************************************)
(* Inputs: cell data mappings and formula texts                            *)
(***************************************************************************)
A1 == <<"A","1">>

A2 == <<"A","2">>

B1 == <<"B","1">>

B2 == <<"B","2">>

C5 == <<"C","5">>

Z1 == <<"Z","1">>

AA1 == <<"A","A","1">>

AB1 == <<"A","B","1">>

\* a mapping given as a set of <<cell name, content>> pairs
Mapping(pairs) ==
  [key \in {p[1] : p \in pairs} |-> (CHOOSE p \in pairs : p[1] = key)[2]]

\* contents for A1 and for B1; <<>> stands for "no entry"
A1Contents ==
  { <<>>,
    <<A1, IntV(1)>>,
    <<A1, StrV(<<>>)>>,
    <<A1, StrV(<<"=","S","U","M","(","B","1",":","B","2",")">>)>>,
    <<A1, StrV(<<"=","B","1">>)>>,
    <<A1, StrV(<<"=","F","O","O","(","1",")">>)>>,
    <<A1, StrV(<<"=","A","1">>)>> }

B1Contents ==
  { <<>>,
    <<B1, IntV(1)>>,
    <<B1, IntV(3)>>,
    <<B1, StrV(<<"a","b","c">>)>>,
    <<B1, StrV(<<"=","A","2">>)>>,
    <<B1, StrV(<<"=","A","1">>)>> }

\* every content of A1 with every content of B1 beside A2 = 2 and B2 = 4,
\* and some other mappings
DataChoices ==
  { Mapping(({a} \ {<<>>}) \cup ({b} \ {<<>>}) \cup {<<A2, IntV(2)>>, <<B2, IntV(4)>>}) :
      a \in A1Contents, b \in B1Contents }
  \cup
  { Mapping({}),
    Mapping({<<A1, IntV(1)>>}),
    Mapping({<<A1, IntV(0)>>, <<B1, IntV(3)>>}),
    Mapping({<<A1, IntV(-5)>>, <<B1, IntV(3)>>}),
    Mapping({<<A1, StrV(<<"=","S","U","M","(","B","1",":","B","2",")">>)>>,
             <<B1, IntV(1)>>, <<B2, IntV(2)>>}),
    Mapping({<<A1, IntV(1)>>, <<B1, IntV(3)>>, <<Z1, IntV(5)>>,
             <<AA1, IntV(6)>>, <<AB1, IntV(7)>>}),
    Mapping({<<A1, StrV(<<"=","C","5">>)>>, <<C5, StrV(<<"=","B","1">>)>>,
             <<B1, IntV(-3)>>}) }

\* ','.join(args)
RECURSIVE Join(_)
Join(args) ==
  IF args = <<>> THEN <<>>
  ELSE IF Len(args) = 1 THEN args[1]
  ELSE args[1] \o <<",">> \o Join(Tail(args))

\* the text NAME(arg,...,arg)
Call(name, args) == name \o <<"(">> \o Join(args) \o <<")">>

\* a name with its first letter in upper case and the others in lower case
Capitalized(name) == <<name[1]>> \o lower(Tail(name))

Spellings(name) == {name, lower(name), Capitalized(name)}

CalledNames ==
  UNION {Spellings(name) : name \in functions}
  \cup {<<"F","O","O">>, <<"f","o","o">>, <<"S","U","M"," ">>, <<>>}

\* argument lists every name is called with
CommonArgs ==
  { <<>>,
    <<A1>>,
    <<<<"A","1",":","B","2">>>>,
    <<<<"a","b","c">>>>,
    <<<<"A","1",":","A","2">>, B1>>,
    <<B1, <<"2">>, <<"7">>>>,
    <<<<"0">>, <<"a","b","c">>>> }

\* arguments of SUM: single references, ranges and numeric literals
SumAtoms ==
  { A1, B1, C5, <<"$","a","$","1">>, <<"2">>,
    <<"A","1",":","A","2">>, <<"A","1",":","B","2">>,
    <<"Z","1",":","A","A","1">>, <<"A","A","1",":","A","B","1">> }

SumArgs ==
  {<<x>> : x \in SumAtoms} \cup {<<x, y>> : x, y \in SumAtoms}
  \cup { <<<<"A","1",":","A","2">>, B1, <<"2">>>>,
         <<<<"2">>, <<"A","1",":","B","2">>, <<"$","a","$","1">>>> }

\* arguments of IF: a condition, a value and, or not, an else value
IfConds ==
  { <<"0">>, <<"1">>, <<>>, <<" ">>, A1, B1, C5, <<"A","1",">","0">> }

IfThens == { <<"5">>, B1 }

IfElses == { <<"7">>, A2 }

IfArgs ==
  {<<c, t>> : c \in IfConds, t \in IfThens}
  \cup {<<c, t, e>> : c \in IfConds, t \in IfThens, e \in IfElses}

Z99 == <<"Z","9","9">>

\* argument texts of AVERAGE that flatten to nothing: none, blank, and
\* ranges whose end is before their start
EmptyArgs ==
  { <<>>, <<" ">>, <<"B","2",":","A","1">>, <<"B","1",":","A","1">>,
    <<"A","2",":","A","1">>, <<"B","2",":","A","1",",","B","1",":","A","1">> }

\* the lengths LEFT and RIGHT are called with
TextLengths == { <<"1">>, <<"2">>, <<"3">>, <<"5">> }

\* arguments of LEFT and RIGHT: a text, with and without a length
TextArgs == {<<B1>>} \cup {<<B1, n>> : n \in TextLengths}

\* ranges with an end that is not a cell name: text after the digits, no
\* digits, digits first, two anchors
MalformedRanges ==
  { <<"A","1","B",":","B","2">>, <<"A","1",":","B">>, <<"A","1",":","B","2","x">>,
    <<"1","A",":","B","2">>, <<"$","$","A","1",":","B","2">> }

\* bare tokens of letters and digits that are not cell names
BareTokens ==
  { <<"A","B","C">>, <<"T","R","U","E">>, <<"1","A">>, <<"1","E","5">>, <<"A","1","B">> }

\* ranges whose end is before their start, in the row, the column or both
InvertedRanges ==
  { A2 \o <<":">> \o A1, B1 \o <<":">> \o A1, B2 \o <<":">> \o A1,
    B2 \o <<":">> \o A2, B2 \o <<":">> \o B1, B1 \o <<":">> \o A2,
    A2 \o <<":">> \o B1 }

\* texts without a parenthesis written after the ")" of a call
Tails ==
  { <<"x">>, <<" ","+"," ","1">>, <<"*","2">>, <<",","5">>, <<":","B">>, <<"=">> }

\* calls followed by such a text
TailedCalls ==
  {Call(name, args) \o tail :
     name \in functions \cup {<<"F","O","O">>},
     args \in {<<A1>>, <<<<"A","1",":","A","2">>, B1>>},
     tail \in Tails}
  \cup {Call(fn_SUM, <<Call(fn_SUM, <<<<"A","1",":","A","2">>>>), B1>>) \o tail : tail \in Tails}

\* ranges between two cells, used as the whole expression
GridRanges ==
  {start \o <<":">> \o end : start, end \in {A1, A2, B1, B2, Z1, AA1, AB1}}

\* other expressions: nesting, blanks, comparison text, malformed references
OtherExprs ==
  { <<"S","U","M","(","I","F","(","A","1",">","0",",","B","1",",","0",")",",","C","5",")">>,
    <<"S","U","M","(","S","U","M","(","A","1",":","A","2",")",",","B","1",")">>,
    <<"S","U","M","(","A","1",":","A","1",")">>,
    <<"S","U","M","(","S","U","M","(","A","1",",","A","2",",",")",",","B","1",")">>,
    <<"I","F","(","I","F","(","0",",","1",",","2",")",",","M","A","X","(","A","1",",","B","1",")",",","7",")">>,
    <<"C","O","U","N","T","(","1",",","2",","," ",")">>,
    <<"C","O","N","C","A","T","(","1",",",",","2",")">>,
    <<"C","O","U","N","T","(",",",")">>,
    <<"I","F","(","1",",","5",",","F","O","O","(","1",")",")">>,
    <<"I","F","(","0",",","F","O","O","(","1",")",",","5",")">>,
    <<"I","F","(","1",",","5",",","A","1",":","B",")">>,
    <<"I","F","(","0",",","A","1",":","B",",","5",")">>,
    <<"I","F","(","1",",","5",",","7",")">>,
    <<"S","U","M","("," ","A","1"," ",","," ","2"," ",")">>,
    <<"S","U","M","(","A","1",":","A","2",")","x">>,
    <<"S","U","M","(","A","1",",",",","2",")">>,
    <<"S","U","M","(","A","1",":","B",")">>,
    <<"S","U","M","(","A","1","B",":","B","2",")">>,
    <<"S","U","M","(","A","1",":","B","2",":","C","5",")">>,
    <<"S","U","M","(","A","1",":","A","2",")",")">>,
    <<"L","E","F","T","(","a","b","c",",","-","1",")">>,
    <<"R","O","U","N","D","(","A","V","E","R","A","G","E","(","A","1",":","A","2",")",",","1",")">>,
    <<"P","O","W","E","R","(","0",",","A","2",")">>,
    <<"P","O","W","E","R","(","A","1",",","2",")">>,
    <<"M","A","X","(","B","1",",","a","b","c",")">>,
    <<"M","I","N","(","A","1",",","B","1",")">>,
    <<"A","1">>,
    <<"B","1">>,
    <<"C","5">>,
    <<"$","A","$","1">>,
    <<"a","1">>,
    <<"A","1",":","B","2">>,
    <<"a","b","c">>,
    <<"1","2">>,
    <<"1",":","2">>,
    <<>>,
    <<" ","A","1"," ">>,
    <<"A","1",">","0">>,
    <<"L","E","N","(","A","1",">","0",")">>,
    <<"A","V","E","R","A","G","E","(","A","1",":","B","2",")">>,
    <<"R","I","G","H","T","(","B","1",")">>,
    <<"L","E","F","T","(","B","1",",","2",")">> }

\* the same text with the last character removed: a call left unclosed
Unclosed(text) == SubSeq(text, 1, Len(text) - 1)

Exprs ==
  {Call(name, args) : name \in CalledNames, args \in CommonArgs}
  \cup {Call(fn_SUM, args) : args \in SumArgs}
  \cup {Call(fn_IF, args) : args \in IfArgs}
  \cup GridRanges
  \cup TailedCalls
  \cup {Call(fn_SUM, <<t>>) : t \in InvertedRanges}
  \cup {Call(name, <<t>>) : name \in {fn_SUM, fn_COUNT, fn_MAX}, t \in EmptyArgs}
  \cup MalformedRanges \cup BareTokens
  \cup {Call(fn_SUM, <<t>>) : t \in MalformedRanges \cup BareTokens}
  \cup {Call(name, args) : name \in {fn_LEFT, fn_RIGHT}, args \in TextArgs}
  \cup {Call(fn_AVERAGE, <<t>>) : t \in EmptyArgs \cup {Z99}}
  \cup {Unclosed(Call(fn_SUM, args)) : args \in {<<x>> : x \in SumAtoms}}
  \cup {Unclosed(Call(name, <<A1, B1>>)) : name \in functions}
  \cup OtherExprs

\* formula texts: with the leading "=", and without it
Formulas ==
  {<<"=">> \o e : e \in Exprs}
  \cup {Call(name, <<A1>>) : name \in functions} \cup OtherExprs
  \cup {<<" ", "=">> \o A1, A1 \o <<"=">>}

(***************************************************************************)
(* The engine as a state machine                                           *)
(***************************************************************************)
NoValue == [k |-> "none"]

\* FormulaEngine.__init__, and a request that is about to be served
Init ==
  /\ data = <<>>
  /\ op = "init"
  /\ request \in [formula : Formulas, data : DataChoices]
  /\ result = NoValue
  /\ col = 0
  /\ letters = <<>>
  /\ back = 0
  /\ log = <<>>
  /\ pc = <<>>
  /\ requests = <<>>
  /\ responses = <<>>
  /\ stack = <<>>

\* formula_engine.update_data(request.data), the first step of evaluate_formula
update_data ==
  /\ op = "init"
  /\ data' = request.data
  /\ op' = "update_data"
  /\ UNCHANGED <<request, result, col, letters, back, log, pc, requests, responses, stack>>

\* formula_engine.evaluate(request.formula, request.cellRef), its second step
Evaluate ==
  /\ op = "update_data"
  /\ result' = evaluate(data, request.formula)
  /\ op' = "evaluate"
  /\ UNCHANGED <<data, request, col, letters, back, log, pc, requests, responses, stack>>

Next == update_data \/ Evaluate

Spec == Init /\ [][Next]_vars

(***************************************************************************)
(* The column conversions as a state machine                               *)
(***************************************************************************)
MaxColumn == 16383

MaxRunLength == 2

\* the letter runs of length 1..MaxRunLength
RECURSIVE RunsOfLength(_)
RunsOfLength(n) ==
  IF n = 0 THEN {<<>>}
  ELSE {<<c>> \o r : c \in Range(UpperLetters), r \in RunsOfLength(n - 1)}

LetterRuns == UNION {RunsOfLength(n) : n \in 1..MaxRunLength}

\* either a column index to convert, or a letter run to parse
InitCol ==
  /\ data = <<>>
  /\ request = [formula |-> <<>>, data |-> <<>>]
  /\ result = NoValue
  /\ back = 0
  /\ log = <<>>
  /\ pc = <<>>
  /\ requests = <<>>
  /\ responses = <<>>
  /\ stack = <<>>
  /\ \/ op = "index" /\ col \in 0..MaxColumn /\ letters = <<>>
     \/ op = "run" /\ col = 0 /\ letters \in LetterRuns

\* letters = _col_to_letter(col)
col_to_letter ==
  /\ op = "index"
  /\ letters' = _col_to_letter(col)
  /\ op' = "letter"
  /\ UNCHANGED <<data, request, result, col, back, log, pc, requests, responses, stack>>

\* back = _parse_cell_ref(letters + "1")["col"]
parse_cell_ref ==
  /\ op \in {"letter", "run"}
  /\ back' = _parse_cell_ref(letters \o <<"1">>).col
  /\ op' = IF op = "letter" THEN "round_trip" ELSE "parsed"
  /\ UNCHANGED <<data, request, result, col, letters, log, pc, requests, responses, stack>>

NextCol == col_to_letter \/ parse_cell_ref

SpecCol == InitCol /\ [][NextCol]_vars

(***************************************************************************)
(* Properties                                                              *)
(***************************************************************************)
Evaluated == op = "evaluate"

\* the expression of a formula: the text after "=", stripped
ExprOf(f) == strip(Tail(f))

IsCall(f) == startswith(f, "=") /\ contains(ExprOf(f), "(")

\* the text before the first "(" and the text from it on
NameOf(f) == SubSeq(ExprOf(f), 1, find(ExprOf(f), "(") - 1)

FromParen(f) == SubSeq(ExprOf(f), find(ExprOf(f), "("), Len(ExprOf(f)))

\* C1: evaluate returns a value or an {error: message} record for every
\* formula and every cell data mapping; no exception escapes it.
C1_NoExceptionEscapes ==
  Evaluated => result.k # "raise" /\ result.k # "none"

\* an unknown function inside a call made evaluate return the error record
C1_Witness ==
  /\ Evaluated
  /\ request.formula = <<"=","I","F","(","1",",","5",",","F","O","O","(","1",")",")">>
  /\ result = Err(Raise("ValueError", UnknownFunction \o <<"F","O","O">>))

\* C2: a formula that does not begin with "=" is returned unchanged, and
\* not as an error record, whatever the cell data holds.
C2_LiteralEchoed ==
  Evaluated /\ ~startswith(request.formula, "=") => result = StrV(request.formula)

\* the text SUM(A1), which would be a call after "=", is echoed
C2_Witness ==
  /\ Evaluated
  /\ request.formula = Call(fn_SUM, <<A1>>)
  /\ A1 \in DOMAIN data
  /\ result = StrV(Call(fn_SUM, <<A1>>))

\* C3: a call is dispatched by the upper-cased name: every letter-case
\* spelling of a listed name gives the result of the upper-case spelling,
\* and a call of a name that is not listed gives an error record.
C3_DispatchByUpperName ==
  Evaluated /\ IsCall(request.formula) =>
    IF upper(NameOf(request.formula)) \in functions
    THEN result = evaluate(data, <<"=">> \o upper(NameOf(request.formula))
                                 \o FromParen(request.formula))
    ELSE result.k = "err"

\* =sum(A1:A2,B1) in lower case sums the three cells
C3_Witness ==
  /\ Evaluated
  /\ request.formula = <<"=">> \o Call(lower(fn_SUM), <<<<"A","1",":","A","2">>, B1>>)
  /\ data = Mapping({<<A1, IntV(1)>>, <<A2, IntV(2)>>, <<B1, IntV(3)>>, <<B2, IntV(4)>>})
  /\ result = IntV(6)

\* C4: a formula whose call has an opening parenthesis with no matching
\* closing parenthesis gives an error record.
C4_UnmatchedParenIsError ==
  Evaluated /\ IsCall(request.formula)
    /\ count(request.formula, "(") > count(request.formula, ")")
  => result.k = "err"

\* The rectangle of a range in A1 notation, stated on the cell names: the
\* column of a letter run counts A..Z, AA..AZ, BA.. from 0 and the row is
\* the printed number.
RECURSIVE A1ColumnCount(_, _)
A1ColumnCount(run, acc) ==
  IF run = <<>> THEN acc
  ELSE A1ColumnCount(Tail(run), acc * 26 + IndexOf(run[1], UpperLetters))

A1Column(name) == A1ColumnCount(SubSeq(name, 1, upper_run(name, 1)), 0) - 1

A1Row(name) == int_of_digits(SubSeq(name, upper_run(name, 1) + 1, Len(name)))

NotAfter(start, end) ==
  A1Column(start) <= A1Column(end) /\ A1Row(start) <= A1Row(end)

InRectangle(name, start, end) ==
  /\ A1Column(start) <= A1Column(name) /\ A1Column(name) <= A1Column(end)
  /\ A1Row(start) <= A1Row(name) /\ A1Row(name) <= A1Row(end)

RECURSIVE SumOver(_, _)
SumOver(d, names) ==
  IF names = {} THEN 0
  ELSE LET name == CHOOSE x \in names : TRUE
       IN  d[name].n + SumOver(d, names \ {name})

\* the sum of the stored values of the cells of the rectangle start:end
RectangleSum(d, start, end) ==
  SumOver(d, {name \in DOMAIN d : InRectangle(name, start, end)})

\* every cell of the rectangle holds a number or is absent
RectangleNumeric(d, start, end) ==
  \A name \in DOMAIN d :
     InRectangle(name, start, end) => d[name].k = "num" /\ d[name].d = 1

RangeEnds == {A1, A2, B1, B2, Z1, AA1, AB1}

RangeText(start, end) == start \o <<":">> \o end

\* C5: for START not after END and cells that hold numbers or are absent,
\* =SUM(START:END) is the sum of the stored values of exactly the cells of
\* the inclusive rectangle between START and END.
C5_RangeSumIsRectangleSum ==
  \A start \in RangeEnds, end \in RangeEnds :
     /\ Evaluated
     /\ request.formula = <<"=">> \o Call(fn_SUM, <<RangeText(start, end)>>)
     /\ NotAfter(start, end)
     /\ RectangleNumeric(data, start, end)
     => result = IntV(RectangleSum(data, start, end))

\* the arguments of SUM whose cells lie in the columns A..Z
PlainAtoms ==
  { A1, B1, C5, <<"$","a","$","1">>, <<"2">>,
    <<"A","1",":","A","2">>, <<"A","1",":","B","2">> }

IsRangeText(t) == contains(t, ":")

StartOf(t) == SubSeq(t, 1, find(t, ":") - 1)

EndOf(t) == SubSeq(t, find(t, ":") + 1, Len(t))

CellOf(t) == upper(replace(t, "$"))

\* the argument denotes numbers only
AtomNumeric(d, t) ==
  IF IsRangeText(t) THEN RectangleNumeric(d, StartOf(t), EndOf(t))
  ELSE IF float_parses(t) THEN TRUE
  ELSE CellOf(t) \in DOMAIN d => d[CellOf(t)].k = "num" /\ d[CellOf(t)].d = 1

\* the sum of the numbers the argument denotes
AtomSum(d, t) ==
  IF IsRangeText(t) THEN RectangleSum(d, StartOf(t), EndOf(t))
  ELSE IF float_parses(t) THEN int_of_digits(t)
  ELSE IF CellOf(t) \in DOMAIN d THEN d[CellOf(t)].n ELSE 0

RECURSIVE AtomsSum(_, _)
AtomsSum(d, args) ==
  IF args = <<>> THEN 0 ELSE AtomSum(d, args[1]) + AtomsSum(d, Tail(args))

MixedArgs ==
  {args \in SumArgs : Len(args) >= 2 /\ \A i \in 1..Len(args) : args[i] \in PlainAtoms}

SingleRefs == {A1, B1, C5, <<"$","A","$","1">>, <<"a","1">>, <<"$","a","$","1">>}

HoldsFormula(d, ref) ==
  CellOf(ref) \in DOMAIN d /\ d[CellOf(ref)].k = "str" /\ startswith(d[CellOf(ref)].s, "=")

CrossCellExample ==
  Mapping({<<A1, StrV(<<"=","S","U","M","(","B","1",":","B","2",")">>)>>, <<B1, IntV(1)>>, <<B2, IntV(2)>>})

CrossCellChain ==
  Mapping({<<A1, StrV(<<"=","C","5">>)>>, <<C5, StrV(<<"=","B","1">>)>>, <<B1, IntV(-3)>>})

\* C7: a single reference to a cell whose stored content is a formula
\* string evaluates to the result of evaluating that formula against the
\* same data, also through a chain of such references.
C7_ReferenceToFormulaCell ==
  /\ \A ref \in SingleRefs :
        Evaluated /\ request.formula = <<"=">> \o ref /\ HoldsFormula(data, ref)
        => result = evaluate(data, data[CellOf(ref)].s)
  /\ Evaluated /\ request.formula = <<"=">> \o A1 /\ data = CrossCellExample
     => result = IntV(3)
  /\ Evaluated /\ request.formula = <<"=">> \o A1 /\ data = CrossCellChain
     => result = IntV(-3)

\* =A1 is 3 when A1 holds =SUM(B1:B2), B1 = 1 and B2 = 2
C7_Witness ==
  /\ Evaluated
  /\ request.formula = <<"=">> \o A1
  /\ data = CrossCellExample
  /\ result = IntV(3)

\* C8: a single reference to a cell with no entry in the data evaluates to
\* the number 0, by itself and as the argument of SUM, never to an error.
C8_AbsentCellIsZero ==
  \A ref \in SingleRefs :
     /\ Evaluated
     /\ CellOf(ref) \notin DOMAIN data
     /\ request.formula \in {<<"=">> \o ref, <<"=">> \o Call(fn_SUM, <<ref>>)}
     => result = IntV(0)

\* =SUM(C5) is 0 on a grid that has other cells and no C5
C8_Witness ==
  /\ Evaluated
  /\ request.formula = <<"=">> \o Call(fn_SUM, <<C5>>)
  /\ A1 \in DOMAIN data
  /\ C5 \notin DOMAIN data
  /\ result = IntV(0)

\* C9: for every column index n in 0..MaxColumn, _col_to_letter and then
\* the letter-to-column conversion of _parse_cell_ref give n back.
C9_ColumnRoundTrip ==
  op = "round_trip" => back = col

\* C10: the letter-to-column conversion maps A to 0, Z to 25 and AA to 26,
\* and two different letter runs never give the same column index.
C10_LetterRunBijection ==
  op = "parsed" =>
    /\ letters = <<"A">> => back = 0
    /\ letters = <<"Z">> => back = 25
    /\ letters = <<"A","A">> => back = 26
    /\ \A r \in LetterRuns : r # letters => _parse_cell_ref(r \o <<"1">>).col # back

\* the value an argument text denotes
ValueOf(d, text) == evaluate(d, <<"=">> \o text)

\* the number 0 or the empty text
Falsy(v) == (v.k = "num" /\ v.n = 0) \/ (v.k = "str" /\ v.s = <<>>)

\* a number other than 0 or a text that is not empty
Truthy(v) == (v.k = "num" /\ v.n # 0) \/ (v.k = "str" /\ v.s # <<>>)

\* C11: IF with a truthy condition returns its second argument; with a
\* falsy condition (0 or empty text) it returns the else argument when
\* there is one and boolean false when there is none.
C11_IfSelects ==
  \A args \in IfArgs :
     Evaluated /\ request.formula = <<"=">> \o Call(fn_IF, args) =>
       /\ Truthy(ValueOf(data, args[1])) => result = ValueOf(data, args[2])
       /\ Falsy(ValueOf(data, args[1])) /\ Len(args) = 3
            => result = ValueOf(data, args[3])
       /\ Falsy(ValueOf(data, args[1])) /\ Len(args) = 2
            => result = BoolV(FALSE)

\* =IF(A1,5) is false when A1 holds the empty text
C11_Witness ==
  /\ Evaluated
  /\ request.formula = <<"=">> \o Call(fn_IF, <<A1, <<"5">>>>)
  /\ A1 \in DOMAIN data
  /\ data[A1] = StrV(<<>>)
  /\ result = BoolV(FALSE)

\* C12: AVERAGE over no values (no arguments, or arguments that flatten to
\* nothing) is 0 and not an error, and AVERAGE of one absent cell is 0.
C12_AverageOfNothing ==
  /\ \A t \in EmptyArgs :
        Evaluated /\ request.formula = <<"=">> \o Call(fn_AVERAGE, <<t>>)
        => result = IntV(0)
  /\ Evaluated /\ request.formula = <<"=">> \o Call(fn_AVERAGE, <<Z99>>)
        => result.k = "num" /\ result.n = 0

\* =AVERAGE(B2:A1), a range that holds no cell, is 0 on a grid with numbers
C12_Witness ==
  /\ Evaluated
  /\ request.formula = <<"=">> \o Call(fn_AVERAGE, <<<<"B","2",":","A","1">>>>)
  /\ {A1, A2, B1, B2} \subseteq DOMAIN data
  /\ result = IntV(0)

(***************************************************************************)
(* One engine called again and again                                       *)
(***************************************************************************)
MaxCalls == 3

\* cellRef of a request: a cell name, or None
None == [k |-> "None"]

CellRefs == {None, StrV(A1)}

EngineData ==
  { Mapping({}),
    CrossCellExample,
    Mapping({<<A1, IntV(1)>>, <<B1, StrV(<<"a","b","c">>)>>}) }

EngineFormulas ==
  { <<"=">> \o A1,
    <<"=">> \o Call(fn_SUM, <<A1, <<"1">>>>),
    <<"=">> \o Call(<<"F","O","O">>, <<<<"1">>>>),
    <<"=","A","1",":","B","2">>,
    A1 }

\* formula_engine = FormulaEngine()
InitEngine ==
  /\ data = <<>>
  /\ op = "init"
  /\ request = [formula |-> <<>>, data |-> <<>>]
  /\ result = NoValue
  /\ col = 0
  /\ letters = <<>>
  /\ back = 0
  /\ log = <<>>
  /\ pc = <<>>
  /\ requests = <<>>
  /\ responses = <<>>
  /\ stack = <<>>

\* engine.update_data(d)
engine_update_data(d) ==
  /\ Len(log) < MaxCalls
  /\ data' = d
  /\ op' = "update_data"
  /\ log' = Append(log, [op |-> "update_data", data |-> d])
  /\ UNCHANGED <<request, result, col, letters, back, pc, requests, responses, stack>>

\* evaluate ending with self.data[cell_ref] = result
engine_evaluate_storing(f, cell_ref) ==
  /\ Len(log) < MaxCalls
  /\ result' = evaluate(data, f)
  /\ data' = IF cell_ref = None THEN data
             ELSE [key \in DOMAIN data \cup {cell_ref.s} |->
                     IF key = cell_ref.s THEN result' ELSE data[key]]
  /\ op' = "evaluate"
  /\ log' = Append(log, [op |-> "evaluate", formula |-> f, cell_ref |-> cell_ref,
                         result |-> result', before |-> data, after |-> data'])
  /\ UNCHANGED <<request, col, letters, back, pc, requests, responses, stack>>

\* evaluate beginning with self.data.setdefault(cell_ref, 0)
engine_evaluate_defaulting(f, cell_ref) ==
  /\ Len(log) < MaxCalls
  /\ data' = IF cell_ref = None \/ cell_ref.s \in DOMAIN data THEN data
             ELSE [key \in DOMAIN data \cup {cell_ref.s} |->
                     IF key = cell_ref.s THEN IntV(0) ELSE data[key]]
  /\ result' = evaluate(data', f)
  /\ op' = "evaluate"
  /\ log' = Append(log, [op |-> "evaluate", formula |-> f, cell_ref |-> cell_ref,
                         result |-> result', before |-> data, after |-> data'])
  /\ UNCHANGED <<request, col, letters, back, pc, requests, responses, stack>>

\* engine.evaluate(f, cell_ref): no statement of evaluate or of what it
\* calls assigns self.data or an item of it, and cell_ref is not read
engine_evaluate(f, cell_ref) ==
  /\ Len(log) < MaxCalls
  /\ result' = evaluate(data, f)
  /\ data' = data
  /\ op' = "evaluate"
  /\ log' = Append(log, [op |-> "evaluate", formula |-> f, cell_ref |-> cell_ref,
                         result |-> result', before |-> data, after |-> data'])
  /\ UNCHANGED <<request, col, letters, back, pc, requests, responses, stack>>

NextEngine ==
  \/ \E d \in EngineData : engine_update_data(d)
  \/ \E f \in EngineFormulas, cell_ref \in CellRefs : engine_evaluate(f, cell_ref)

SpecEngine == InitEngine /\ [][NextEngine]_vars

Evaluations == {i \in 1..Len(log) : log[i].op = "evaluate"}

\* no update_data between the i-th and the j-th call
NoUpdateBetween(i, j) == \A k \in i..j : log[k].op # "update_data"

\* C13: on one engine, two evaluations of the same formula with no
\* update_data between them return the same result, and so do two
\* evaluations of the same formula against equal data: the result depends
\* on the formula and on the data supplied last, on nothing else.
C13_EvaluateIsAFunction ==
  \A i \in Evaluations, j \in Evaluations :
     i < j /\ log[i].formula = log[j].formula =>
       /\ NoUpdateBetween(i, j) => log[i].result = log[j].result
       /\ log[i].before = log[j].before => log[i].result = log[j].result

\* =SUM(A1,1) was evaluated twice for the cell A1 after one update_data
C13_Witness ==
  /\ Len(log) = 3
  /\ log[1].op = "update_data"
  /\ log[2].op = "evaluate" /\ log[3].op = "evaluate"
  /\ log[2].formula = <<"=">> \o Call(fn_SUM, <<A1, <<"1">>>>)
  /\ log[3].formula = log[2].formula
  /\ log[2].cell_ref = StrV(A1) /\ log[3].cell_ref = StrV(A1)
  /\ log[2].result = FloatV(4)

\* C14: evaluate leaves the cell data as it found it: the same keys with
\* the same contents, whether it returned a value or an error record.
C14_DataUntouched ==
  \A i \in Evaluations :
     /\ log[i].after = log[i].before
     /\ DOMAIN log[i].after = DOMAIN log[i].before

\* =A1 went through the formula stored in A1, and =FOO(1) gave an error
\* record, on data that has no entry for the cell the formulas are for
C14_Witness ==
  /\ Len(log) = 3
  /\ log[1] = [op |-> "update_data", data |-> CrossCellExample]
  /\ log[2].op = "evaluate" /\ log[2].formula = <<"=">> \o A1 /\ log[2].result = IntV(3)
  /\ log[3].op = "evaluate" /\ log[3].result.k = "err"
  /\ data = CrossCellExample

(***************************************************************************)
(* Several requests served by the one formula_engine                       *)
(***************************************************************************)
NumRequests == 2

Ids == 1..NumRequests

ServerData ==
  { Mapping({<<A1, IntV(1)>>}),
    Mapping({<<A1, IntV(2)>>, <<B1, IntV(3)>>}),
    CrossCellExample }

ServerFormulas ==
  { <<"=">> \o A1,
    <<"=">> \o Call(fn_SUM, <<A1, B1>>),
    <<"=">> \o Call(<<"F","O","O">>, <<<<"1">>>>),
    A1 }

\* the engine as constructed at import, and the requests that have arrived
InitServer ==
  /\ data = <<>>
  /\ op = "init"
  /\ request = [formula |-> <<>>, data |-> <<>>]
  /\ result = NoValue
  /\ col = 0
  /\ letters = <<>>
  /\ back = 0
  /\ log = <<>>
  /\ pc = [i \in Ids |-> "received"]
  /\ requests \in [Ids -> [formula : ServerFormulas, data : ServerData]]
  /\ responses = [i \in Ids |-> NoValue]
  /\ stack = <<>>

\* a response that reports an error record as a failed request
FormulaResponse_failing(r) ==
  IF IsRaise(r) THEN [result |-> None, success |-> FALSE, error |-> r.msg]
  ELSE IF r.k = "err" THEN [result |-> None, success |-> FALSE, error |-> r.msg]
  ELSE [result |-> r, success |-> TRUE, error |-> None]

\* FormulaResponse(result=result, success=True), or the one of the except branch
FormulaResponse(r) ==
  IF IsRaise(r) THEN [result |-> None, success |-> FALSE, error |-> r.msg]
  ELSE [result |-> r, success |-> TRUE, error |-> None]

\* the handler run by threads: another request can run between its
\* update_data and its evaluate
evaluate_formula_preempted(i) ==
  \/ /\ pc[i] = "received"
     /\ data' = requests[i].data
     /\ pc' = [pc EXCEPT ![i] = "updated"]
     /\ op' = "update_data"
     /\ UNCHANGED <<request, result, col, letters, back, log, requests, responses, stack>>
  \/ /\ pc[i] = "updated"
     /\ responses' = [responses EXCEPT ![i] = FormulaResponse(evaluate(data, requests[i].formula))]
     /\ pc' = [pc EXCEPT ![i] = "done"]
     /\ op' = "evaluate"
     /\ UNCHANGED <<data, request, result, col, letters, back, log, requests, stack>>

\* evaluate_formula(request) for request i: a coroutine with no await in its
\* body, which the event loop runs from its first statement to its return
\* without running any other coroutine
evaluate_formula(i) ==
  /\ pc[i] = "received"
  /\ data' = requests[i].data
  /\ responses' = [responses EXCEPT ![i] = FormulaResponse(evaluate(data', requests[i].formula))]
  /\ pc' = [pc EXCEPT ![i] = "done"]
  /\ op' = "evaluate"
  /\ UNCHANGED <<request, result, col, letters, back, log, requests, stack>>

NextServer == \E i \in Ids : evaluate_formula(i)

SpecServer == InitServer /\ [][NextServer]_vars

\* C15: every response holds the evaluation of its own request's formula
\* against its own request's data, in whatever order the requests in
\* flight are served by the shared engine.
C15_OwnDataOnly ==
  \A i \in Ids :
     pc[i] = "done" =>
       /\ responses[i].success
       /\ responses[i].result = evaluate(requests[i].data, requests[i].formula)

\* two requests for =A1 with different data were both answered, each with
\* the A1 of its own data, the engine holding the data of one of them
C15_Witness ==
  /\ \A i \in Ids : pc[i] = "done"
  /\ requests[1].formula = <<"=">> \o A1 /\ requests[2].formula = <<"=">> \o A1
  /\ requests[1].data = Mapping({<<A1, IntV(1)>>})
  /\ requests[2].data = CrossCellExample
  /\ responses[1].result = IntV(1)
  /\ responses[2].result = IntV(3)
  /\ data = requests[1].data

\* the letter run of a column counted from 0: A..Z, then AA..AZ, BA..
RECURSIVE A1Letters(_)
A1Letters(c) ==
  IF c < 26 THEN <<UpperLetters[c + 1]>>
  ELSE A1Letters((c \div 26) - 1) \o <<UpperLetters[(c % 26) + 1]>>

\* the name of the cell in column c (from 0) and printed row r
A1Name(c, r) == A1Letters(c) \o str_of_nat(r)

\* the grid of the stored contents of the rectangle start:end, row by row
RectangleGrid(d, start, end) ==
  ListV([r \in 1..(A1Row(end) - A1Row(start) + 1) |->
    ListV([c \in 1..(A1Column(end) - A1Column(start) + 1) |->
      get(d, A1Name(A1Column(start) + c - 1, A1Row(start) + r - 1))])])

\* C16: for START not after END on either axis, the range START:END gives
\* one row per row of the rectangle and one value per column, in row-major
\* order, each the content stored under the cell's A1 name (0 when absent).
C16_RangeGrid ==
  \A start \in RangeEnds, end \in RangeEnds :
     /\ Evaluated
     /\ request.formula = <<"=">> \o RangeText(start, end)
     /\ NotAfter(start, end)
     => result = RectangleGrid(data, start, end)

\* the grid of the rectangle start:end with every cell looked up as a
\* single reference is
LookedUpGrid(d, start, end) ==
  ListV([r \in 1..(A1Row(end) - A1Row(start) + 1) |->
    ListV([c \in 1..(A1Column(end) - A1Column(start) + 1) |->
      ValueOf(d, A1Name(A1Column(start) + c - 1, A1Row(start) + r - 1))])])

\* C17: every cell of a range is looked up as a single reference is, a
\* stored formula contributing its evaluated value: with A1 = '=SUM(B1:B2)',
\* B1 = 1 and B2 = 2, =SUM(A1:A1) and =SUM(A1) both give 3.
C17_RangeCellsAreLookedUp ==
  /\ \A start \in {A1, A2, B1, B2}, end \in {A1, A2, B1, B2} :
        /\ Evaluated
        /\ request.formula = <<"=">> \o RangeText(start, end)
        /\ NotAfter(start, end)
        => result = LookedUpGrid(data, start, end)
  /\ /\ Evaluated
     /\ data = CrossCellExample
     /\ request.formula \in { <<"=">> \o Call(fn_SUM, <<RangeText(A1, A1)>>),
                              <<"=">> \o Call(fn_SUM, <<A1>>) }
     => result = IntV(3)

\* the parenthesis depth of the text before its character i: the "(" before
\* it minus the ")" before it
depth_at(args_str, i) ==
  Cardinality({j \in 1..(i - 1) : args_str[j] = "("})
  - Cardinality({j \in 1..(i - 1) : args_str[j] = ")"})

\* the commas at depth zero
split_points(args_str) ==
  {i \in 1..Len(args_str) : args_str[i] = "," /\ depth_at(args_str, i) = 0}

\* the n-th piece of the text cut at its split points
current_at(args_str, n) ==
  LET sp == split_points(args_str)
      nth(m) == CHOOSE i \in sp : Cardinality({j \in sp : j < i}) = m - 1
      lo == IF n = 1 THEN 1 ELSE nth(n - 1) + 1
      hi == IF n = Cardinality(sp) + 1 THEN Len(args_str) ELSE nth(n) - 1
  IN  SubSeq(args_str, lo, hi)

\* the trimmed pieces, left to right, without a last piece that is empty
CutPieces(args_str) ==
  LET n == Cardinality(split_points(args_str)) + 1
      all == [m \in 1..n |-> strip(current_at(args_str, m))]
  IN  IF all[n] = <<>> THEN SubSeq(all, 1, n - 1) ELSE all

Balanced(args_str) ==
  /\ depth_at(args_str, Len(args_str) + 1) = 0
  /\ \A i \in 1..Len(args_str) : depth_at(args_str, i) >= 0

\* the values of the pieces from the n-th on, or the exception of the first
\* piece that raises one
RECURSIVE ValuesOfPieces(_, _, _, _)
ValuesOfPieces(d, pieces, n, args) ==
  IF n > Len(pieces) THEN [k |-> "args", items |-> args]
  ELSE LET v == _parse_and_eval(d, pieces[n], 0)
       IN  IF IsRaise(v) \/ v.k = "unmodelled" THEN v
           ELSE ValuesOfPieces(d, pieces, n + 1, Append(args, v))

\* the text between the first "(" and the last ")" of a call
ArgsText(f) ==
  LET rest == Tail(FromParen(f))
  IN  IF contains(rest, ")") THEN SubSeq(rest, 1, rfind(rest, ")") - 1) ELSE rest

\* the result of the call when its arguments are the given pieces
CallOnPieces(d, name, pieces) ==
  LET args == ValuesOfPieces(d, pieces, 1, <<>>)
      r == IF args.k # "args" THEN args ELSE _call_function(name, args.items)
  IN  IF IsRaise(r) THEN Err(r) ELSE r

\* C18: for an argument text with balanced parentheses the function is
\* called on the values of exactly the pieces cut at the depth-zero commas,
\* left to right and trimmed; a comma inside a nested call does not split,
\* and a last piece that is empty or blank gives no argument.
C18_SplitAtDepthZeroCommas ==
  Evaluated /\ IsCall(request.formula) /\ Balanced(ArgsText(request.formula)) =>
    result = CallOnPieces(data, upper(NameOf(request.formula)),
                          CutPieces(ArgsText(request.formula)))

\* =SUM(IF(A1>0,B1,0),C5) called SUM on two arguments: the B1 chosen by IF,
\* and the absent C5
C18_Witness ==
  /\ Evaluated
  /\ request.formula =
       <<"=","S","U","M","(","I","F","(","A","1",">","0",",","B","1",",","0",")",",","C","5",")">>
  /\ Len(CutPieces(ArgsText(request.formula))) = 2
  /\ B1 \in DOMAIN data
  /\ data[B1] = IntV(3)
  /\ result = IntV(3)

\* the formula stored in the cell of ref ends with an exception
StoredFormulaFails(d, ref) ==
  HoldsFormula(d, ref) /\ evaluate(d, d[CellOf(ref)].s).k = "err"

\* C19: when the formula stored in a referenced cell raises an exception,
\* the top-level result is an error record, whatever function the reference
\* is an argument of; the exception never becomes an argument value.
C19_NestedErrorReachesTop ==
  \A name \in functions :
     /\ Evaluated
     /\ StoredFormulaFails(data, A1)
     /\ request.formula \in { <<"=">> \o A1,
                              <<"=">> \o Call(name, <<A1>>),
                              <<"=">> \o Call(fn_IF, <<A1, <<"5">>, <<"7">>>>) }
     => result.k = "err"

\* the numbers among the contents of the rectangle start:end
NumbersOf(d, start, end) ==
  SelectSeq(_flatten(RectangleGrid(d, start, end)), isnumber)

\* every cell of the rectangle holds a number or a text that is no formula,
\* and one of them holds a text
TextAmongNumbers(d, start, end) ==
  /\ \A name \in DOMAIN d :
        InRectangle(name, start, end) =>
          \/ d[name].k = "num"
          \/ d[name].k = "str" /\ ~startswith(d[name].s, "=")
  /\ \E name \in DOMAIN d : InRectangle(name, start, end) /\ d[name].k = "str"

\* C20: SUM, AVERAGE, MAX and MIN leave a text value among their flattened
\* arguments out and give the result for the remaining numbers, not an
\* error.
C20_TextIsLeftOut ==
  \A name \in {fn_SUM, fn_AVERAGE, fn_MAX, fn_MIN} :
     /\ Evaluated
     /\ request.formula = <<"=">> \o Call(name, <<RangeText(A1, B2)>>)
     /\ TextAmongNumbers(data, A1, B2)
     => result = apply_function(name, NumbersOf(data, A1, B2))

\* the text of the value an argument text denotes
TextOf(d, text) == str_of(ValueOf(d, text))

Min(m, n) == IF m <= n THEN m ELSE n

\* the first and the last n characters of s (all of s when it is shorter)
FirstChars(s, n) == SubSeq(s, 1, Min(n, Len(s)))

LastChars(s, n) == SubSeq(s, Len(s) - Min(n, Len(s)) + 1, Len(s))

\* C21: LEFT(s) is the first and RIGHT(s) the last character of the text
\* of s; with a length n >= 1 they are its first and its last n characters.
C21_LeftRightDefaultLength ==
  Evaluated /\ TextOf(data, B1).k = "str" =>
    /\ request.formula = <<"=">> \o Call(fn_LEFT, <<B1>>)
         => result = StrV(FirstChars(TextOf(data, B1).s, 1))
    /\ request.formula = <<"=">> \o Call(fn_RIGHT, <<B1>>)
         => result = StrV(LastChars(TextOf(data, B1).s, 1))
    /\ \A n \in TextLengths :
         /\ request.formula = <<"=">> \o Call(fn_LEFT, <<B1, n>>)
              => result = StrV(FirstChars(TextOf(data, B1).s, int_of_digits(n)))
         /\ request.formula = <<"=">> \o Call(fn_RIGHT, <<B1, n>>)
              => result = StrV(LastChars(TextOf(data, B1).s, int_of_digits(n)))

\* the text is, as a whole, an optional "$", one or more letters, an
\* optional "$" and one or more digits, in either letter case
IsCellName(text) ==
  LET u  == upper(text)
      p1 == IF startswith(u, "$") THEN 2 ELSE 1
      nl == upper_run(u, p1)
      p2 == p1 + nl
      p3 == IF p2 <= Len(u) /\ u[p2] = "$" THEN p2 + 1 ELSE p2
      nd == digit_run(u, p3)
  IN  nl > 0 /\ nd > 0 /\ p3 + nd - 1 = Len(u)

\* C22: a range with an endpoint that is not, as a whole, a cell name (text
\* after the digits as in A1B:B2, or no digits as in A1:B) makes evaluate
\* return an error record, by itself and as the argument of SUM.
C22_MalformedEndpointIsError ==
  \A t \in MalformedRanges :
     /\ Evaluated
     /\ request.formula \in {<<"=">> \o t, <<"=">> \o Call(fn_SUM, <<t>>)}
     /\ ~IsCellName(StartOf(t)) \/ ~IsCellName(EndOf(t))
     => result.k = "err"

\* the token is classified as a reference by _parse_and_eval's test
LooksLikeReference(text) ==
  /\ isalnum(text)
  /\ \E i \in 1..Len(text) : isalpha(text[i])
  /\ ~contains(text, ":")

\* C23: a bare token that is classified as a reference and is not letters
\* followed by digits (ABC, TRUE, 1A, 1E5) gives an error record, not a
\* value.
C23_BareTokenIsError ==
  \A t \in BareTokens :
     /\ Evaluated
     /\ request.formula = <<"=">> \o t
     /\ LooksLikeReference(t)
     /\ ~IsCellName(t)
     => result.k = "err"

\* the text of a call up to its last ")"
UpToLastParen(text) == SubSeq(text, 1, rfind(text, ")"))

\* C24: in NAME(args)TAIL with no parenthesis in TAIL, the text after the
\* last ")" is dropped: the result is that of NAME(args), for every TAIL,
\* and the dropped text is not reported.
C24_TrailingTextDropped ==
  \A text \in TailedCalls :
     Evaluated /\ request.formula = <<"=">> \o text =>
       result = evaluate(data, <<"=">> \o UpToLastParen(text))

\* =SUM(A1:A2,B1) + 1 is 6, the value of =SUM(A1:A2,B1)
C24_Witness ==
  /\ Evaluated
  /\ request.formula =
       <<"=">> \o Call(fn_SUM, <<<<"A","1",":","A","2">>, B1>>) \o <<" ","+"," ","1">>
  /\ data = Mapping({<<A1, IntV(1)>>, <<A2, IntV(2)>>, <<B1, IntV(3)>>, <<B2, IntV(4)>>})
  /\ result = IntV(6)

IfWithFailingBranch ==
  { [text |-> <<"I","F","(","1",",","5",",","F","O","O","(","1",")",")">>,
     fails |-> <<"F","O","O","(","1",")">>],
    [text |-> <<"I","F","(","0",",","F","O","O","(","1",")",",","5",")">>,
     fails |-> <<"F","O","O","(","1",")">>],
    [text |-> <<"I","F","(","1",",","5",",","A","1",":","B",")">>,
     fails |-> <<"A","1",":","B">>],
    [text |-> <<"I","F","(","0",",","A","1",":","B",",","5",")">>,
     fails |-> <<"A","1",":","B">>] }

\* C28: IF evaluates all of its arguments before it chooses: an error
\* raised by the branch that is not selected makes the whole evaluation
\* the error record of that branch.
C28_IfIsEager ==
  \A c \in IfWithFailingBranch :
     Evaluated /\ request.formula = <<"=">> \o c.text =>
       /\ result.k = "err"
       /\ result = evaluate(data, <<"=">> \o c.fails)

\* =IF(1,5,FOO(1)) is the error record of FOO, and =IF(1,5,7) is 5
C28_Witness ==
  /\ Evaluated
  /\ request.formula = <<"=","I","F","(","1",",","5",",","F","O","O","(","1",")",")">>
  /\ result = Err(Raise("ValueError", UnknownFunction \o <<"F","O","O">>))
  /\ evaluate(data, <<"=","I","F","(","1",",","5",",","7",")">>) = FloatV(5)
  /\ A1 \in DOMAIN data

Comparison == <<"A","1",">","0">>

\* C30: an argument written as a comparison is not evaluated: it is the
\* text itself, not empty, and IF(A1>0, x, y) is x whatever A1 holds.
C30_ComparisonIsOpaqueText ==
  /\ Evaluated /\ request.formula = <<"=">> \o Comparison
       => result = StrV(Comparison)
  /\ Evaluated /\ request.formula = <<"=">> \o Call(fn_LEN, <<Comparison>>)
       => result = IntV(Len(Comparison))
  /\ \A args \in IfArgs :
        Evaluated /\ args[1] = Comparison /\ request.formula = <<"=">> \o Call(fn_IF, args)
        => result = ValueOf(data, args[2])

\* =IF(A1>0,5,7) is 5 when A1 holds -5
C30_Witness ==
  /\ Evaluated
  /\ request.formula = <<"=">> \o Call(fn_IF, <<Comparison, <<"5">>, <<"7">>>>)
  /\ A1 \in DOMAIN data
  /\ data[A1] = IntV(-5)
  /\ result = FloatV(5)

\* C29: the handler answers success = true, with no error field, for
\* every request it served, also when the result is an error record.
C29_SuccessAlsoForErrorRecords ==
  \A i \in DOMAIN pc :
     pc[i] = "done" =>
       /\ responses[i].success = TRUE
       /\ responses[i].error = None
       /\ evaluate(requests[i].data, requests[i].formula).k = "err"
            => responses[i].result.k = "err"

\* a request for =FOO(1) was answered with success = true and the error
\* record as its result
C29_Witness ==
  /\ pc # <<>>
  /\ pc[1] = "done"
  /\ requests[1].formula = <<"=">> \o Call(<<"F","O","O">>, <<<<"1">>>>)
  /\ responses[1].success = TRUE
  /\ responses[1].result = Err(Raise("ValueError", UnknownFunction \o <<"F","O","O">>))

(***************************************************************************)
(* One evaluation, call by call                                            *)
(*                                                                         *)
(* The frames of evaluate and _parse_and_eval that one call of evaluate    *)
(* has in progress. _parse_args, _call_function and _get_cell_value run    *)
(* inside the _parse_and_eval frame that called them. A frame holds its    *)
(* text and what its calls have come back with so far: a value, or the     *)
(* exception that was raised.                                              *)
(*                                                                         *)
(* Where a value is used several times it is bound once, as x \in {e}.     *)
(***************************************************************************)
Frame(fn, text, cell_ref) == [fn |-> fn, text |-> text, cell_ref |-> cell_ref, got |-> <<>>]

\* the loop body of _parse_args for one character, keeping the text each
\* argument is cut to in place of its value
texts_body(st, char) ==
  IF char = "("
  THEN [st EXCEPT !.depth = @ + 1, !.current = Append(@, char)]
  ELSE IF char = ")"
  THEN [st EXCEPT !.depth = @ - 1, !.current = Append(@, char)]
  ELSE IF char = "," /\ st.depth = 0
  THEN [st EXCEPT !.args = Append(@, strip(st.current)), !.current = <<>>]
  ELSE [st EXCEPT !.current = Append(@, char)]

\* the for loop of _parse_args from the i-th character on
RECURSIVE texts_loop(_, _, _)
texts_loop(args_str, i, st) ==
  IF i > Len(args_str) THEN st
  ELSE CHOOSE end \in {texts_loop(args_str, i + 1, next) :
                         next \in {texts_body(st, args_str[i])}} : TRUE

\* the texts _parse_args hands to _parse_and_eval, in the order of the calls
arg_texts(args_str) ==
  CHOOSE texts \in
    {IF strip(st.current) # <<>> THEN Append(st.args, strip(st.current)) ELSE st.args :
       st \in {texts_loop(args_str, 1,
                  [k |-> "loop", current |-> <<>>, depth |-> 0, args |-> <<>>])}} : TRUE

\* func_match[1].rsplit(')', 1)[0] for expr holding a "("
args_str_of(expr) ==
  CHOOSE args_str \in
    {IF contains(rest, ")") THEN SubSeq(rest, 1, rfind(rest, ")") - 1) ELSE rest :
       rest \in {SubSeq(expr, find(expr, "(") + 1, Len(expr))}} : TRUE

\* the second test of _parse_and_eval: the text goes to _get_cell_value
is_reference(expr) ==
  /\ isalnum(replace(replace(expr, ":"), "$"))
  /\ \E i \in 1..Len(expr) : isalpha(expr[i])

\* the calls _parse_and_eval makes on the stripped text expr, in order, if
\* none of them raises: itself on every argument text of a function call,
\* and evaluate (through _get_cell_value) on the stored formula of a cell
calls_of_expr(d, expr) ==
  IF contains(expr, "(")
  THEN CHOOSE calls \in
         {[i \in 1..Len(texts) |-> Frame("_parse_and_eval", texts[i], None)] :
            texts \in {arg_texts(args_str_of(expr))}} : TRUE
  ELSE IF is_reference(expr) /\ ~contains(expr, ":")
  THEN CHOOSE calls \in
         {IF val.k = "str" /\ startswith(val.s, "=")
          THEN <<Frame("evaluate", val.s, StrV(upper(replace(expr, "$"))))>>
          ELSE <<>> :
            val \in {get(d, upper(replace(expr, "$")))}} : TRUE
  ELSE <<>>

\* the calls a frame makes: evaluate calls _parse_and_eval on formula[1:]
calls_of(d, f) ==
  IF f.fn = "evaluate"
  THEN IF startswith(f.text, "=") THEN <<Frame("_parse_and_eval", Tail(f.text), None)>> ELSE <<>>
  ELSE CHOOSE calls \in {calls_of_expr(d, expr) : expr \in {strip(f.text)}} : TRUE

\* the number of evaluate frames a stack holds below its first one
nesting(stk) == Cardinality({i \in DOMAIN stk : stk[i].fn = "evaluate"}) - 1

\* the last call of the frame came back with an exception
raised_in(f) ==
  /\ f.got # <<>>
  /\ \E v \in {f.got[Len(f.got)]} : IsRaise(v) \/ v.k = "unmodelled"

\* the frame has a call left to make
has_next_call(f, calls) == Len(f.got) < Len(calls) /\ ~raised_in(f)

\* what _parse_and_eval comes back with on the stripped text expr when it
\* has no call left to make: it lets the exception of an argument through,
\* calls the function on the values of the arguments, hands on what
\* evaluate returned for a formula cell, or reads the cell, the range, the
\* number or the text
value_of_expr(d, f, expr) ==
  IF contains(expr, "(")
  THEN IF raised_in(f) THEN f.got[Len(f.got)]
       ELSE CHOOSE v \in {_call_function(func_name, f.got) :
                            func_name \in {upper(SubSeq(expr, 1, find(expr, "(") - 1))}} : TRUE
  ELSE IF is_reference(expr)
  THEN IF contains(expr, ":") THEN _get_range_values(d, expr)
       ELSE IF f.got # <<>> THEN f.got[1]
       ELSE get(d, upper(replace(expr, "$")))
  ELSE IF float_parses(expr) THEN FloatV(int_of_digits(expr))
  ELSE StrV(expr)

\* what a frame with no call left to make comes back with: evaluate turns
\* an exception into an error record
value_of(d, f) ==
  IF f.fn = "evaluate"
  THEN IF ~startswith(f.text, "=") THEN StrV(f.text)
       ELSE IF IsRaise(f.got[1]) THEN Err(f.got[1]) ELSE f.got[1]
  ELSE CHOOSE v \in {value_of_expr(d, f, expr) : expr \in {strip(f.text)}} : TRUE

\* the frame on top is left, and the frame below it receives v
pop(stk, v) ==
  IF Len(stk) = 1 THEN <<>>
  ELSE [SubSeq(stk, 1, Len(stk) - 1) EXCEPT ![Len(stk) - 1].got = Append(@, v)]

RecFormulas ==
  { <<"=">> \o e : e \in
      { A1, B1, <<"C","1">>, <<"$","a","$","1">>, <<"5">>,
        Call(fn_SUM, <<A1, <<"2">>>>), Call(fn_SUM, <<<<"1">>, A1>>),
        Call(fn_LEN, <<A1>>), Call(fn_SUM, <<A1, B1>>),
        Call(fn_IF, <<A1, B1, <<"C","1">>>>),
        Call(fn_SUM, <<A1 \o <<":">> \o B1>>),
        Call(<<"F","O","O">>, <<A1>>),
        Call(fn_SUM, <<Call(<<"F","O","O">>, <<<<"1">>>>), A1>>),
        Call(fn_SUM, <<Call(fn_MAX, <<A1, <<"1">>>>), B1>>) } }
  \cup { A1 }

RecData ==
  { <<>>,
    Mapping({<<A1, IntV(5)>>}),
    Mapping({<<A1, StrV(<<"=">> \o A1)>>}),
    Mapping({<<A1, StrV(<<"=">> \o B1)>>, <<B1, StrV(<<"=">> \o A1)>>}),
    Mapping({<<A1, StrV(<<"=">> \o B1)>>, <<B1, StrV(<<"=", "C", "1">>)>>,
             <<<<"C","1">>, StrV(<<"=">> \o A1)>>}),
    Mapping({<<A1, StrV(<<"=">> \o Call(fn_SUM, <<A1, <<"1">>>>))>>}),
    Mapping({<<A1, IntV(1)>>, <<B1, StrV(<<"=">> \o B1)>>}),
    Mapping({<<A1, StrV(<<"=">> \o B1)>>, <<B1, StrV(<<"=", "C", "1">>)>>,
             <<<<"C","1">>, IntV(7)>>}),
    Mapping({<<A1, StrV(<<"=">> \o Call(fn_SUM, <<B1, <<"C","1">>>>))>>,
             <<B1, StrV(<<"=", "C", "1">>)>>, <<<<"C","1">>, IntV(2)>>}),
    Mapping({<<A1, StrV(<<"=">> \o Call(fn_SUM, <<B1, B1>>))>>,
             <<B1, StrV(<<"=">> \o Call(fn_MAX, <<<<"C","1">>, <<"4">>>>))>>,
             <<<<"C","1">>, IntV(1)>>}),
    Mapping({<<A1, StrV(<<"=">> \o Call(fn_SUM, <<A1 \o <<":">> \o B1>>))>>,
             <<B1, IntV(3)>>}),
    Mapping({<<A1, StrV(<<"=">> \o Call(<<"F","O","O">>, <<B1>>))>>,
             <<B1, StrV(<<"=", "C", "1">>)>>}) }

\* evaluate(request.formula) has just been called on the engine holding
\* request.data
InitRecursion ==
  /\ request \in [formula : RecFormulas, data : RecData]
  /\ data = request.data
  /\ op = "init"
  /\ result = NoValue
  /\ col = 0
  /\ letters = <<>>
  /\ back = 0
  /\ log = <<>>
  /\ pc = <<>>
  /\ requests = <<>>
  /\ responses = <<>>
  /\ stack = <<Frame("evaluate", request.formula, None)>>

\* call stopping at a cell whose evaluation is already in progress
call_detecting_cycles ==
  /\ stack # <<>>
  /\ \E f \in {stack[Len(stack)]} : \E calls \in {calls_of(data, f)} :
       /\ has_next_call(f, calls)
       /\ \E c \in {calls[Len(f.got) + 1]} :
            /\ c.fn = "evaluate" => nesting(stack) < RecursionLimit
            /\ IF c.fn = "evaluate" /\ \E i \in DOMAIN stack : stack[i].cell_ref = c.cell_ref
               THEN /\ stack' = pop(stack, Raise("ValueError", <<"C","i","r","c","u","l","a","r">>))
                    /\ log' = Append(log, [ev |-> "circular", cell_ref |-> c.cell_ref])
               ELSE /\ stack' = Append(stack, c)
                    /\ log' = IF c.fn = "evaluate"
                              THEN Append(log, [ev |-> "evaluate", cell_ref |-> c.cell_ref])
                              ELSE log
  /\ op' = "call"
  /\ UNCHANGED <<data, request, result, col, letters, back, pc, requests, responses>>

\* the frame on top makes its next call: self._parse_and_eval(...) of lines
\* 91, 128 and 137, or self.evaluate(val, clean_ref) of line 192
call ==
  /\ stack # <<>>
  /\ \E f \in {stack[Len(stack)]} : \E calls \in {calls_of(data, f)} :
       /\ has_next_call(f, calls)
       /\ \E c \in {calls[Len(f.got) + 1]} :
            /\ c.fn = "evaluate" => nesting(stack) < RecursionLimit
            /\ stack' = Append(stack, c)
            /\ log' = IF c.fn = "evaluate"
                      THEN Append(log, [ev |-> "evaluate", cell_ref |-> c.cell_ref])
                      ELSE log
  /\ op' = "call"
  /\ UNCHANGED <<data, request, result, col, letters, back, pc, requests, responses>>

\* the interpreter refuses the call of evaluate at its recursion limit: the
\* RecursionError leaves the frame that made the call
recursion_error ==
  /\ stack # <<>>
  /\ \E f \in {stack[Len(stack)]} : \E calls \in {calls_of(data, f)} :
       /\ has_next_call(f, calls)
       /\ \E c \in {calls[Len(f.got) + 1]} :
            /\ c.fn = "evaluate"
            /\ nesting(stack) >= RecursionLimit
            /\ log' = Append(log, [ev |-> "RecursionError", cell_ref |-> c.cell_ref])
  /\ stack' = pop(stack, RaiseInterp("RecursionError", "maximum recursion depth exceeded"))
  /\ op' = "recursion_error"
  /\ UNCHANGED <<data, request, result, col, letters, back, pc, requests, responses>>

\* return leaving its frame on the stack
return_staying ==
  /\ stack # <<>>
  /\ \E f \in {stack[Len(stack)]} : \E calls \in {calls_of(data, f)} :
       /\ ~has_next_call(f, calls)
       /\ \E v \in {value_of(data, f)} :
            /\ stack' = stack
            /\ result' = IF Len(stack) = 1 THEN v ELSE result
  /\ op' = "return"
  /\ UNCHANGED <<data, request, col, letters, back, log, pc, requests, responses>>

\* the frame on top has no call left to make, or its last call raised: it
\* returns or lets the exception through. The return of the first frame is
\* the return of evaluate.
return ==
  /\ stack # <<>>
  /\ \E f \in {stack[Len(stack)]} : \E calls \in {calls_of(data, f)} :
       /\ ~has_next_call(f, calls)
       /\ \E v \in {value_of(data, f)} :
            /\ stack' = pop(stack, v)
            /\ result' = IF Len(stack) = 1 THEN v ELSE result
  /\ op' = "return"
  /\ UNCHANGED <<data, request, col, letters, back, log, pc, requests, responses>>

NextRecursion == call \/ recursion_error \/ return

SpecRecursion == InitRecursion /\ [][NextRecursion]_vars

\* the interpreter keeps running the one thread of the evaluation
FairSpecRecursion == SpecRecursion /\ WF_vars(NextRecursion)

\* the cells whose stored formulas a text makes evaluate enter: its
\* single-cell references, those inside the arguments of calls included
RECURSIVE references(_)
references(expr0) ==
  LET expr == strip(expr0)
  IN  IF contains(expr, "(")
      THEN LET texts == arg_texts(args_str_of(expr))
           IN  UNION {references(texts[i]) : i \in 1..Len(texts)}
      ELSE IF is_reference(expr) /\ ~contains(expr, ":")
      THEN {upper(replace(expr, "$"))}
      ELSE {}

FormulaCells(d) == {c \in DOMAIN d : d[c].k = "str" /\ startswith(d[c].s, "=")}

RefsOf(d, c) == IF c \in FormulaCells(d) THEN references(Tail(d[c].s)) ELSE {}

RECURSIVE ReachedIn(_, _, _)
ReachedIn(d, cells, n) ==
  IF n = 0 THEN cells
  ELSE ReachedIn(d, cells \cup UNION {RefsOf(d, c) : c \in cells}, n - 1)

\* the cells reached from c through one or more references
ReachedFrom(d, c) == ReachedIn(d, RefsOf(d, c), Cardinality(DOMAIN d))

\* c lies on a cycle of cells that each hold "=" and one single-cell reference
OnReferenceCycle(d, c) ==
  /\ c \in FormulaCells(d)
  /\ c \in ReachedFrom(d, c)
  /\ \A x \in ReachedFrom(d, c) :
        /\ x \in FormulaCells(d)
        /\ is_reference(strip(Tail(d[x].s)))
        /\ ~contains(d[x].s, ":")

Entered == SelectSeq(log, LAMBDA e : e.ev = "evaluate")

Refused == SelectSeq(log, LAMBDA e : e.ev = "RecursionError")

EvaluateFrames == SelectSeq(stack, LAMBDA f : f.fn = "evaluate")

\* C25: once evaluate has entered a cell of a reference cycle, it enters
\* cells of the cycle only, one inside the other, and none of these calls
\* returns until the interpreter has refused a call at its recursion limit:
\* nothing in the evaluator ends the descent, which is as deep as the limit
\* allows whatever the limit is.
C25_CycleDescendsToTheLimit ==
  (Entered # <<>> /\ OnReferenceCycle(data, Entered[1].cell_ref.s)) =>
     /\ Refused = <<>> =>
           /\ Len(EvaluateFrames) = Len(Entered) + 1
           /\ \A i \in 1..Len(Entered) :
                 /\ OnReferenceCycle(data, Entered[i].cell_ref.s)
                 /\ i > 1 => Entered[i].cell_ref.s \in RefsOf(data, Entered[i - 1].cell_ref.s)
     /\ Refused # <<>> => Len(Entered) >= RecursionLimit * Len(Refused)
     /\ result # NoValue =>
           /\ Refused # <<>>
           /\ \E i, j \in 1..Len(Entered) : i < j /\ Entered[i] = Entered[j]

\* =A1 on A1 = '=B1', B1 = '=A1' came back after the interpreter refused
\* the call that followed RecursionLimit nested entries of A1 and B1
C25_Witness ==
  /\ request.formula = <<"=">> \o A1
  /\ data = Mapping({<<A1, StrV(<<"=">> \o B1)>>, <<B1, StrV(<<"=">> \o A1)>>})
  /\ stack = <<>>
  /\ Len(Entered) = RecursionLimit
  /\ Entered[1].cell_ref = StrV(A1) /\ Entered[2].cell_ref = StrV(B1)
  /\ Entered[3].cell_ref = StrV(A1)
  /\ Len(Refused) = 1
  /\ result.k = "err"

\* no formula cell reaches itself through single-cell references
Acyclic(d) == \A c \in FormulaCells(d) : c \notin ReachedFrom(d, c)

\* every _parse_and_eval frame works on a text shorter than the text of the
\* frame that called it
ShorterPieces ==
  \A i \in 2..Len(stack) :
     stack[i].fn = "_parse_and_eval" => Len(stack[i].text) < Len(stack[i - 1].text)

\* every nested evaluate frame is on a cell that the cell of the evaluate
\* frame around it refers to, and that no frame around it is on
FurtherAlong ==
  \A i \in 1..Len(EvaluateFrames) :
     /\ i > 2 => EvaluateFrames[i].cell_ref.s \in RefsOf(data, EvaluateFrames[i - 1].cell_ref.s)
     /\ \A j \in 1..(i - 1) : EvaluateFrames[j].cell_ref # EvaluateFrames[i].cell_ref

\* C27: on data in which no formula cell reaches itself through single-cell
\* references, every recursive _parse_and_eval call works on a strictly
\* shorter text, every re-entry of evaluate is on a cell further along the
\* reference chain, and evaluate returns, the interpreter having refused no
\* call.
C27_AcyclicTerminates ==
  /\ [](Acyclic(data) => ShorterPieces /\ FurtherAlong)
  /\ Acyclic(data) => <>(stack = <<>> /\ result # NoValue /\ Refused = <<>>)

\* =SUM(A1,2) on the chain A1 = '=B1', B1 = '=C1', C1 = 7 entered A1 and
\* then B1, read C1 and returned 9.0
C27_Witness ==
  /\ Acyclic(data)
  /\ request.formula = <<"=">> \o Call(fn_SUM, <<A1, <<"2">>>>)
  /\ stack = <<>>
  /\ Len(Entered) = 2
  /\ Entered[1].cell_ref = StrV(A1) /\ Entered[2].cell_ref = StrV(B1)
  /\ result = FloatV(9)

====
